---------------------------- MODULE Spec2Model ----------------------------
(***************************************************************************)
(* A model of pruner's injection extraction and recursive formatting       *)
(* pipeline (crates/cli/src/api/format.rs, crates/cli/src/api/injections.rs *)
(* and src/api/text.rs).                                                    *)
(*                                                                         *)
(* Byte buffers are sequences of one-character strings.  Byte indices are   *)
(* zero-based as in the Rust source; the byte at index i of a buffer b is   *)
(* b[i + 1].  All modelled bytes are ASCII, so a char is one byte.          *)
(***************************************************************************)
EXTENDS Integers, Sequences, FiniteSets, TLC

NL == "\n"
CR == "\r"
SP == " "
TAB == "\t"
BS == "\\"

\* Byte values of the characters the model uses (ASCII), for String::cmp.
Ord(c) ==
  CASE c = TAB -> 9
    [] c = NL -> 10
    [] c = CR -> 13
    [] c = SP -> 32
    [] c = "[" -> 91
    [] c = BS -> 92
    [] c = "]" -> 93
    [] c = "a" -> 97
    [] c = "b" -> 98
    [] OTHER -> 120

Min(a, b) == IF a < b THEN a ELSE b
Max(a, b) == IF a > b THEN a ELSE b

\* source[from..to) with zero-based, half-open byte indices.
Slice(s, from, to) == SubSeq(s, from + 1, to)

\* slice.starts_with(prefix)
StartsWith(s, p) == Len(p) <= Len(s) /\ SubSeq(s, 1, Len(p)) = p

\* vec![b' '; n]
Spaces(n) == [i \in 1..n |-> SP]

\* All sequences over S of length at most n.
SeqsUpTo(S, n) == UNION {[1..k -> S] : k \in 0..n}

RECURSIVE SetToSeq(_)
SetToSeq(S) ==
  IF S = {} THEN <<>>
  ELSE LET x == CHOOSE y \in S : TRUE IN <<x>> \o SetToSeq(S \ {x})

(***************************************************************************)
(* src/api/text.rs                                                         *)
(***************************************************************************)

\* A loop that indents after every "\n" that has a next byte, blank lines
\* included.
RECURSIVE OffsetLinesFromEveryLine(_, _, _)
OffsetLinesFromEveryLine(data, offset, i) ==
  IF i >= Len(data) THEN data
  ELSE IF data[i + 1] = NL /\ i + 1 < Len(data)
    THEN OffsetLinesFromEveryLine(
           Slice(data, 0, i + 1) \o Spaces(offset) \o Slice(data, i + 1, Len(data)),
           offset, i + offset + 1)
    ELSE OffsetLinesFromEveryLine(data, offset, i + 1)

RECURSIVE OffsetLinesFrom(_, _, _)
OffsetLinesFrom(data, offset, i) ==
  IF i >= Len(data) THEN data
  ELSE IF data[i + 1] = NL
    THEN IF i + 1 >= Len(data) \/ data[i + 2] = NL \/ data[i + 2] = CR
      THEN OffsetLinesFrom(data, offset, i + 1)
      ELSE OffsetLinesFrom(
             Slice(data, 0, i + 1) \o Spaces(offset) \o Slice(data, i + 1, Len(data)),
             offset, i + offset + 1)
    ELSE OffsetLinesFrom(data, offset, i + 1)

offset_lines(data, offset) ==
  IF offset = 0 THEN data ELSE OffsetLinesFrom(data, offset, 0)

IsNewlineByte(c) == c = NL \/ c = CR

RECURSIVE strip_trailing_newlines(_)
strip_trailing_newlines(data) ==
  IF Len(data) > 0 /\ IsNewlineByte(data[Len(data)])
  THEN strip_trailing_newlines(SubSeq(data, 1, Len(data) - 1))
  ELSE data

RECURSIVE TrailingNewlinesIndex(_, _)
TrailingNewlinesIndex(data, index) ==
  IF index > 0 /\ IsNewlineByte(data[index])
  THEN TrailingNewlinesIndex(data, index - 1)
  ELSE index

trailing_newlines(data) ==
  Slice(data, TrailingNewlinesIndex(data, Len(data)), Len(data))

\* rposition of '\n' in source[..target], plus one; 0 when there is none.
RECURSIVE LineStart(_, _)
LineStart(source, target) ==
  IF target = 0 THEN 0
  ELSE IF source[target] = NL THEN target
  ELSE LineStart(source, target - 1)

column_for_byte(source, byte_index) ==
  LET target == Min(byte_index, Len(source))
  IN target - LineStart(source, target)

\* str::split_inclusive('\n'): the segments, each ending with its '\n'
\* except possibly the last; no segment for an empty tail.
RECURSIVE SplitInclusive(_)
SplitInclusive(text) ==
  IF Len(text) = 0 THEN <<>>
  ELSE LET nl == {i \in 1..Len(text) : text[i] = NL}
       IN IF nl = {} THEN <<text>>
          ELSE LET k == CHOOSE i \in nl : \A j \in nl : i <= j
               IN <<SubSeq(text, 1, k)>> \o SplitInclusive(SubSeq(text, k + 1, Len(text)))

RECURSIVE LeadingSpaces(_)
LeadingSpaces(line) ==
  IF Len(line) > 0 /\ line[1] = SP THEN 1 + LeadingSpaces(Tail(line)) ELSE 0

\* str::lines(): split on '\n', dropping the '\n' and one '\r' before it.
LineOf(segment) ==
  LET noNl == IF Len(segment) > 0 /\ segment[Len(segment)] = NL
              THEN SubSeq(segment, 1, Len(segment) - 1) ELSE segment
  IN IF Len(noNl) > 0 /\ noNl[Len(noNl)] = CR /\ Len(noNl) < Len(segment)
     THEN SubSeq(noNl, 1, Len(noNl) - 1) ELSE noNl

\* line.trim().is_empty()
IsBlankLine(line) == \A i \in 1..Len(line) : line[i] \in {SP, TAB, CR, NL}

min_leading_indent(text) ==
  LET segs == SplitInclusive(text)
      lines == {LineOf(segs[i]) : i \in 1..Len(segs)}
      indents == {LeadingSpaces(l) : l \in {x \in lines : ~IsBlankLine(x)}}
  IN IF indents = {} THEN 0
     ELSE CHOOSE m \in indents : \A n \in indents : m <= n

StripSegment(segment, indent) ==
  LET hasNl == Len(segment) > 0 /\ segment[Len(segment)] = NL
      line == IF hasNl THEN SubSeq(segment, 1, Len(segment) - 1) ELSE segment
      trim_count == Min(indent, LeadingSpaces(line))
  IN SubSeq(line, trim_count + 1, Len(line)) \o (IF hasNl THEN <<NL>> ELSE <<>>)

RECURSIVE ConcatAll(_)
ConcatAll(parts) ==
  IF Len(parts) = 0 THEN <<>> ELSE Head(parts) \o ConcatAll(Tail(parts))

strip_leading_indent(text, indent) ==
  IF indent = 0 THEN text
  ELSE LET segs == SplitInclusive(text)
       IN ConcatAll([i \in 1..Len(segs) |-> StripSegment(segs[i], indent)])

\* String::cmp: lexicographic on bytes.
RECURSIVE StrLess(_, _)
StrLess(a, b) ==
  IF Len(b) = 0 THEN FALSE
  ELSE IF Len(a) = 0 THEN TRUE
  ELSE IF a[1] # b[1] THEN Ord(a[1]) < Ord(b[1])
  ELSE StrLess(Tail(a), Tail(b))

\* b.len().cmp(&a.len()).then_with(|| a.cmp(b)) is Less
EscapeBefore(a, b) == Len(a) > Len(b) \/ (Len(a) = Len(b) /\ StrLess(a, b))

RECURSIVE sort_escape_chars(_)
sort_escape_chars(escape_chars) ==
  IF escape_chars = {} THEN <<>>
  ELSE LET first == CHOOSE a \in escape_chars :
                      \A b \in escape_chars \ {a} : EscapeBefore(a, b)
       IN <<first>> \o sort_escape_chars(escape_chars \ {first})

\* The first escape of the list that `rest` starts with, as a one-element
\* sequence; <<>> when none matches.
RECURSIVE FirstMatch(_, _)
FirstMatch(rest, escape_chars) ==
  IF Len(escape_chars) = 0 THEN <<>>
  ELSE IF StartsWith(rest, Head(escape_chars)) THEN <<Head(escape_chars)>>
  ELSE FirstMatch(rest, Tail(escape_chars))

\* An unescape that does not treat `\\` as a literal backslash.
UnescapeStepNoPair(text, escape_chars, st) ==
  LET remaining == Slice(text, st.index, Len(text))
      m == FirstMatch(Tail(remaining), escape_chars)
  IN IF remaining[1] = BS /\ Len(m) > 0
       THEN [index |-> st.index + 1 + Len(m[1]), result |-> st.result \o m[1]]
     ELSE [index |-> st.index + 1, result |-> Append(st.result, remaining[1])]

\* One iteration of the while loop of unescape_text.
UnescapeStep(text, escape_chars, st) ==
  LET remaining == Slice(text, st.index, Len(text))
      m == FirstMatch(Tail(remaining), escape_chars)
  IN IF remaining[1] = BS /\ Len(remaining) > 1 /\ remaining[2] = BS
       THEN [index |-> st.index + 2, result |-> Append(st.result, BS)]
     ELSE IF remaining[1] = BS /\ Len(m) > 0
       THEN [index |-> st.index + 1 + Len(m[1]), result |-> st.result \o m[1]]
     ELSE [index |-> st.index + 1, result |-> Append(st.result, remaining[1])]

RECURSIVE UnescapeFrom(_, _, _)
UnescapeFrom(text, escape_chars, st) ==
  IF st.index >= Len(text) THEN st.result
  ELSE UnescapeFrom(text, escape_chars, UnescapeStep(text, escape_chars, st))

unescape_text(text, escape_chars) ==
  UnescapeFrom(text, escape_chars, [index |-> 0, result |-> <<>>])

\* One iteration of the while loop of escape_text.
EscapeStep(text, escape_chars, st) ==
  LET remaining == Slice(text, st.index, Len(text))
      m == FirstMatch(remaining, escape_chars)
  IN IF remaining[1] = BS
       THEN [index |-> st.index + 1, result |-> st.result \o <<BS, BS>>]
     ELSE IF Len(m) > 0
       THEN [index |-> st.index + Len(m[1]), result |-> (st.result \o <<BS>>) \o m[1]]
     ELSE [index |-> st.index + 1, result |-> Append(st.result, remaining[1])]

\* The loop of escape_text.  An escape list holding the empty string makes
\* an iteration that does not advance index; the operator is only applied
\* to lists of non-empty strings.
RECURSIVE EscapeFrom(_, _, _)
EscapeFrom(text, escape_chars, st) ==
  IF st.index >= Len(text) THEN st.result
  ELSE EscapeFrom(text, escape_chars, EscapeStep(text, escape_chars, st))

escape_text(text, escape_chars) ==
  EscapeFrom(text, escape_chars, [index |-> 0, result |-> <<>>])

(***************************************************************************)
(* crates/cli/src/api/injections.rs                                        *)
(*                                                                         *)
(* tree-sitter is an external library: a parse and the query cursor are    *)
(* represented by their result, a sequence of query matches               *)
(*   [pattern_index, captures], capture = [name, range, text]              *)
(* and a query by its patterns                                             *)
(*   [language, predicates], predicate = [operator, capture, ...].        *)
(* A pattern's language is <<>> or <<name>> (an Option).                    *)
(***************************************************************************)

CONTENT == "injection.content"
LANGUAGE == "injection.language"

\* usize arithmetic wraps at 2^64; TLC's integers are 32 bits wide, so the
\* modulus is scaled down to 2^30.  A wrapped value only takes part in
\* comparisons with row numbers and line lengths, all far below it.
UsizeModulus == 1073741824

Point(row, column) == [row |-> row, column |-> column]

Range(start_byte, end_byte, start_point, end_point) ==
  [start_byte |-> start_byte, end_byte |-> end_byte,
   start_point |-> start_point, end_point |-> end_point]

RECURSIVE CountNewlines(_)
CountNewlines(s) ==
  IF Len(s) = 0 THEN 0
  ELSE (IF Head(s) = NL THEN 1 ELSE 0) + CountNewlines(Tail(s))

point_for_byte(source, byte_index) ==
  LET target == Min(byte_index, Len(source))
  IN Point(CountNewlines(Slice(source, 0, target)),
           target - LineStart(source, target))

\* The Range tree-sitter reports for a node spanning [s, e) of `text`.
NodeRange(text, s, e) ==
  Range(s, e, point_for_byte(text, s), point_for_byte(text, e))

\* Option<usize>: <<>> is None, <<n>> is Some(n).
RECURSIVE PointToByteFrom(_, _, _, _)
PointToByteFrom(lines, point, current_row, byte_index) ==
  IF Len(lines) = 0 THEN <<>>
  ELSE IF current_row = point.row
    THEN <<byte_index + Min(point.column, Len(Head(lines)))>>
  ELSE PointToByteFrom(Tail(lines), point, current_row + 1,
                       byte_index + Len(Head(lines)))

point_to_byte(source, point) ==
  PointToByteFrom(SplitInclusive(source), point, 0, 0)

with_newline(source) ==
  LET should_append_newline == ~(Len(source) > 0 /\ source[Len(source)] = NL)
  IN [source_with_newline |->
        IF should_append_newline THEN Append(source, NL) ELSE source,
      original_endpoint |->
        IF should_append_newline
        THEN <<[end_byte |-> Len(source),
                end_point |-> point_for_byte(source, Len(source))]>>
        ELSE <<>>]

\* A remap that clamps end_byte and keeps the end_point of the parse.
RemapEndByteOnly(range, original_endpoint) ==
  IF Len(original_endpoint) = 0 THEN range
  ELSE IF range.end_byte < original_endpoint[1].end_byte THEN range
  ELSE Range(range.start_byte, original_endpoint[1].end_byte,
             range.start_point, range.end_point)

remap_range_for_appended_newline(range, original_endpoint) ==
  IF Len(original_endpoint) = 0 THEN range
  ELSE IF range.end_byte < original_endpoint[1].end_byte THEN range
  ELSE Range(range.start_byte, original_endpoint[1].end_byte,
             range.start_point, original_endpoint[1].end_point)

\* ((value as isize) + offset) as usize
calculate_point_offset(value, offset) ==
  (value + offset + UsizeModulus) % UsizeModulus

\* <<range>> on success, <<>> when an unwrap of point_to_byte panics.
apply_offset_to_range(source, range, offset) ==
  LET new_start_point ==
        Point(calculate_point_offset(range.start_point.row, offset.start_row),
              calculate_point_offset(range.start_point.column, offset.start_col))
      new_end_point ==
        Point(calculate_point_offset(range.end_point.row, offset.end_row),
              calculate_point_offset(range.end_point.column, offset.end_col))
      new_start_byte == point_to_byte(source, new_start_point)
      new_end_byte == point_to_byte(source, new_end_point)
  IN IF Len(new_start_byte) = 0 \/ Len(new_end_byte) = 0 THEN <<>>
     ELSE <<Range(new_start_byte[1], new_end_byte[1],
                  new_start_point, new_end_point)>>

get_lang_name(pattern) == pattern.language

\* The predicates of one operator, in declaration order, malformed ones
\* (those the parse_*_predicate function rejects) dropped.
RECURSIVE PredicatesOf(_, _)
PredicatesOf(predicates, operator) ==
  IF Len(predicates) = 0 THEN <<>>
  ELSE (IF Head(predicates).operator = operator /\ ~Head(predicates).malformed
        THEN <<Head(predicates)>> ELSE <<>>)
       \o PredicatesOf(Tail(predicates), operator)

\* HashMap::insert: the last offset! of a capture wins.
get_offset_modifiers(predicates, capture) ==
  LET ps == PredicatesOf(predicates, "offset!")
      hits == {i \in 1..Len(ps) : ps[i].capture = capture}
  IN IF hits = {} THEN <<>>
     ELSE <<ps[CHOOSE i \in hits : \A j \in hits : j <= i].offset>>

\* entry().or_default().extend(): the union over the capture's escape!s.
get_escape_modifiers(predicates, capture) ==
  LET ps == PredicatesOf(predicates, "escape!")
  IN UNION {ps[i].escape_chars : i \in {j \in 1..Len(ps) : ps[j].capture = capture}}

RECURSIVE get_gsub_modifiers(_, _)
get_gsub_modifiers(predicates, capture) ==
  IF Len(predicates) = 0 THEN <<>>
  ELSE (IF Head(predicates).operator = "gsub!" /\ ~Head(predicates).malformed
           /\ Head(predicates).capture = capture
        THEN <<Head(predicates)>> ELSE <<>>)
       \o get_gsub_modifiers(Tail(predicates), capture)

\* Every rule applied to the text of the capture rather than to the
\* previous rule's result.
RECURSIVE ApplyGsubUnchained(_, _)
ApplyGsubUnchained(text, modifiers) ==
  IF Len(modifiers) = 0 THEN text
  ELSE IF modifiers[Len(modifiers)].compiles /\ text = modifiers[Len(modifiers)].pattern
    THEN modifiers[Len(modifiers)].replacement
  ELSE ApplyGsubUnchained(text, SubSeq(modifiers, 1, Len(modifiers) - 1))

\* Language names are atoms of the model: a rule's Lua pattern matches a
\* whole name, and a rule whose pattern does not compile is skipped.
RECURSIVE apply_gsub_modifiers(_, _)
apply_gsub_modifiers(text, modifiers) ==
  IF Len(modifiers) = 0 THEN text
  ELSE apply_gsub_modifiers(
         IF Head(modifiers).compiles /\ text = Head(modifiers).pattern
         THEN Head(modifiers).replacement ELSE text,
         Tail(modifiers))

\* The last capture of the match with the given name, as an Option.
LastCapture(captures, name) ==
  LET hits == {i \in 1..Len(captures) : captures[i].name = name}
  IN IF hits = {} THEN <<>>
     ELSE <<captures[CHOOSE i \in hits : \A j \in hits : j <= i]>>

InjectedRegion(range, lang, escape_chars) ==
  [range |-> range, lang |-> lang, opts |-> [escape_chars |-> escape_chars]]

\* One iteration of the `while let Some(query_match)` loop: "skip" for a
\* `continue`, "panic" for a failed unwrap, "region" for a push.
ExtractMatch(source_str, original_endpoint, query, query_match) ==
  LET pattern == query.patterns[query_match.pattern_index + 1]
      harcoded_lang_name == get_lang_name(pattern)
      is_hardcoded_lang == Len(harcoded_lang_name) > 0
      lang_capture == IF query.has_language_capture
                      THEN LastCapture(query_match.captures, LANGUAGE) ELSE <<>>
      content_capture == LastCapture(query_match.captures, CONTENT)
      offset == get_offset_modifiers(pattern.predicates, CONTENT)
      lang0 == IF is_hardcoded_lang THEN harcoded_lang_name
               ELSE IF Len(lang_capture) > 0 THEN <<lang_capture[1].text>>
               ELSE <<>>
      lang_name == IF ~is_hardcoded_lang /\ Len(lang_capture) > 0
                   THEN apply_gsub_modifiers(
                          lang0[1], get_gsub_modifiers(pattern.predicates, LANGUAGE))
                   ELSE lang0[1]
      range == IF Len(offset) > 0
               THEN apply_offset_to_range(source_str, content_capture[1].range, offset[1])
               ELSE <<content_capture[1].range>>
  IN IF Len(content_capture) = 0 \/ Len(lang0) = 0 THEN [kind |-> "skip"]
     ELSE IF Len(range) = 0 THEN [kind |-> "panic"]
     ELSE [kind |-> "region",
           region |-> InjectedRegion(
             remap_range_for_appended_newline(range[1], original_endpoint),
             lang_name,
             get_escape_modifiers(pattern.predicates, CONTENT))]

RECURSIVE ExtractLoop(_, _, _, _, _)
ExtractLoop(source_str, original_endpoint, query, matches, injected_regions) ==
  IF Len(matches) = 0 THEN [status |-> "ok", regions |-> injected_regions]
  ELSE LET r == ExtractMatch(source_str, original_endpoint, query, Head(matches))
       IN IF r.kind = "panic" THEN [status |-> "panic", regions |-> <<>>]
          ELSE ExtractLoop(source_str, original_endpoint, query, Tail(matches),
                 IF r.kind = "region" THEN Append(injected_regions, r.region)
                 ELSE injected_regions)

\* extract_language_injections, given the matches the query cursor yields
\* on source_with_newline.
extract_language_injections(query, source, matches) ==
  LET w == with_newline(source)
  IN IF ~query.has_content_capture THEN [status |-> "ok", regions |-> <<>>]
     ELSE ExtractLoop(w.source_with_newline, w.original_endpoint, query, matches, <<>>)

(***************************************************************************)
(* The environment of format: grammars and external formatter commands.    *)
(*                                                                         *)
(* The grammar fixtures stand for tests/fixtures/grammars.  A document of   *)
(* a fixture language is a row of cells separated by "|" (a backslash      *)
(* quotes the byte after it); every non-empty cell is a node captured as   *)
(* @injection.content.  "md" injects "clj" by its injection.language       *)
(* property; "clj" names the language of a cell with an                    *)
(* @injection.language capture, whose text is "ts" for a cell that starts  *)
(* with "a" and "txt" for any other cell, and declares                     *)
(* (#escape! @injection.content "|").  "ts" is an alias of "typescript";   *)
(* "txt" is neither a grammar nor an alias.                                *)
(***************************************************************************)

PIPE == "|"

EscapePredicate(capture, chars) ==
  [operator |-> "escape!", capture |-> capture, malformed |-> FALSE,
   escape_chars |-> chars]

MdQuery ==
  [has_content_capture |-> TRUE, has_language_capture |-> FALSE,
   patterns |-> <<[language |-> <<"clj">>, predicates |-> <<>>]>>]

CljQuery ==
  [has_content_capture |-> TRUE, has_language_capture |-> TRUE,
   patterns |-> <<[language |-> <<>>,
                   predicates |-> <<EscapePredicate(CONTENT, {<<PIPE>>})>>]>>]

\* A grammar whose injections query has no @injection.content capture.
TsQuery ==
  [has_content_capture |-> FALSE, has_language_capture |-> FALSE, patterns |-> <<>>]

\* format_context.grammars: language name -> injections query.
Grammars == [md |-> MdQuery, clj |-> CljQuery, typescript |-> TsQuery]

\* The cells [s, e) of text[from..], scanning from byte `i` with the
\* current cell starting at `start`.
RECURSIVE CellsFrom(_, _, _)
CellsFrom(text, start, i) ==
  IF i >= Len(text)
    THEN IF start < Len(text) THEN <<<<start, Len(text)>>>> ELSE <<>>
  ELSE IF text[i + 1] = BS THEN CellsFrom(text, start, i + 2)
  ELSE IF text[i + 1] = PIPE
    THEN (IF start < i THEN <<<<start, i>>>> ELSE <<>>) \o CellsFrom(text, i + 1, i + 1)
  ELSE CellsFrom(text, start, i + 1)

\* A grammar whose nodes nest: in a "nest" document every "|" opens a block
\* that runs to the end of the document, and the text after the "|" is
\* captured as @injection.content of language "txt", so the content of a
\* later block lies inside the content of every earlier one.
NestQuery ==
  [has_content_capture |-> TRUE, has_language_capture |-> FALSE,
   patterns |-> <<[language |-> <<"txt">>, predicates |-> <<>>]>>]

\* The contents [s, e) of the blocks of a "nest" document opened at or
\* after byte `i`.
RECURSIVE BlocksFrom(_, _)
BlocksFrom(text, i) ==
  IF i + 1 >= Len(text) THEN <<>>
  ELSE (IF text[i + 1] = PIPE THEN <<<<i + 1, Len(text)>>>> ELSE <<>>)
       \o BlocksFrom(text, i + 1)

\* parser.parse and cursor.matches on `text` for a fixture language: one
\* match per cell (per block for "nest"), in document order.
Parse(language, text) ==
  LET cells == IF language = "nest" THEN BlocksFrom(text, 0) ELSE CellsFrom(text, 0, 0)
      content(c) == [name |-> CONTENT, range |-> NodeRange(text, c[1], c[2]), text |-> ""]
      tag(c) == [name |-> LANGUAGE, range |-> NodeRange(text, c[1], c[1]),
                 text |-> IF text[c[1] + 1] = "a" THEN "ts" ELSE "txt"]
  IN [i \in 1..Len(cells) |->
       [pattern_index |-> 0,
        captures |-> IF language = "clj"
                     THEN <<tag(cells[i]), content(cells[i])>>
                     ELSE <<content(cells[i])>>]]

\* What an external command writes to stdout for `source`, and how it exits.
\*   cat   copies its input            dup   doubles every "a"
\*   sq    squeezes runs of spaces     echo  writes nothing, exits 0
\*   false exits non-zero
\*   strict copies its input, but exits non-zero on a backslash
RECURSIVE Dup(_)
Dup(s) ==
  IF Len(s) = 0 THEN <<>>
  ELSE (IF Head(s) = "a" THEN <<"a", "a">> ELSE <<Head(s)>>) \o Dup(Tail(s))

RECURSIVE Squeeze(_)
Squeeze(s) ==
  IF Len(s) < 2 THEN s
  ELSE IF s[1] = SP /\ s[2] = SP THEN Squeeze(Tail(s))
  ELSE <<Head(s)>> \o Squeeze(Tail(s))

Command(cmd, source) ==
  CASE cmd = "cat" -> [success |-> TRUE, stdout |-> source, stderr |-> <<>>]
    [] cmd = "dup" -> [success |-> TRUE, stdout |-> Dup(source), stderr |-> <<>>]
    [] cmd = "sq" -> [success |-> TRUE, stdout |-> Squeeze(source), stderr |-> <<>>]
    [] cmd = "echo" -> [success |-> TRUE, stdout |-> <<>>, stderr |-> <<>>]
    [] cmd = "strict" ->
         IF \E k \in 1..Len(source) : source[k] = BS
         THEN [success |-> FALSE, stdout |-> <<>>, stderr |-> <<"e">>]
         ELSE [success |-> TRUE, stdout |-> source, stderr |-> <<>>]
    [] OTHER -> [success |-> FALSE, stdout |-> <<>>, stderr |-> <<"e">>]

(***************************************************************************)
(* src/api/format/runner.rs and crates/cli/src/config.rs                   *)
(***************************************************************************)

\* LanguageFormatSpec::String(name)
Bare(name) == [kind |-> "String", formatter |-> name,
               run_in_root |-> TRUE, run_in_injections |-> TRUE]

\* LanguageFormatSpec::Table { formatter, run_in_root, run_in_injections }
Table(name, in_root, in_injections) ==
  [kind |-> "Table", formatter |-> name,
   run_in_root |-> in_root, run_in_injections |-> in_injections]

run_in_root(format_spec) ==
  IF format_spec.kind = "String" THEN TRUE ELSE format_spec.run_in_root

run_in_injections(format_spec) ==
  IF format_spec.kind = "String" THEN TRUE ELSE format_spec.run_in_injections

\* FormatterSpec { cmd, args, stdin, fail_on_stderr }
FormatterSpec(cmd) == [cmd |-> cmd, stdin |-> TRUE, fail_on_stderr |-> FALSE]

\* runner::format for a formatter that reads stdin: Ok(stdout) when the
\* command exits successfully (and, with fail_on_stderr, wrote nothing to
\* stderr), whatever the length of stdout; an error naming cmd otherwise.
runner_format(formatter, source, opts) ==
  LET output == Command(formatter.cmd, source)
  IN IF ~output.success
       THEN [ok |-> FALSE, result |-> <<>>,
             error |-> <<"Failed to run formatter", formatter.cmd>>]
     ELSE IF formatter.fail_on_stderr /\ Len(output.stderr) > 0
       THEN [ok |-> FALSE, result |-> <<>>,
             error |-> <<"Failed to run formatter", formatter.cmd>>]
     ELSE [ok |-> TRUE, result |-> output.stdout, error |-> <<>>]

(***************************************************************************)
(* crates/cli/src/api/format.rs                                            *)
(*                                                                         *)
(* A frame of format is [status, buf, error, calls]: status is "ok", "err" *)
(* (an Err was returned) or "panic"; calls is the list of the external     *)
(* formatter invocations made so far, kept for the properties.             *)
(***************************************************************************)

FormatOpts(printwidth, language) == [printwidth |-> printwidth, language |-> language]

Call(name, cmd, opts, is_root, input) ==
  [formatter |-> name, cmd |-> cmd, printwidth |-> opts.printwidth,
   language |-> opts.language, is_root |-> is_root, input |-> input]

\* The two flags read at the wrong levels.
ShouldRunSwapped(format_spec, is_root) ==
  (is_root /\ run_in_injections(format_spec)) \/ (~is_root /\ run_in_root(format_spec))

\* The condition of the `if` inside the loop over the language's specs.
should_run(format_spec, is_root) ==
  (is_root /\ run_in_root(format_spec)) \/ (~is_root /\ run_in_injections(format_spec))

\* Only the first spec of the language, when the level is to be formatted.
SpecsForFirstOnly(ctx, opts, format_root, is_root) ==
  IF (~is_root \/ format_root) /\ opts.language \in DOMAIN ctx.languages
  THEN SubSeq(ctx.languages[opts.language], 1, 1) ELSE <<>>

\* The specs the root-level loop iterates over: languages.get(language),
\* nothing when the loop is skipped.
SpecsFor(ctx, opts, format_root, is_root) ==
  IF (~is_root \/ format_root) /\ opts.language \in DOMAIN ctx.languages
  THEN ctx.languages[opts.language] ELSE <<>>

\* One iteration of the loop over the language's formatter specs.
FormatterStep(ctx, opts, is_root, format_spec, acc) ==
  LET formatter_name == format_spec.formatter
  IN IF ~should_run(format_spec, is_root) THEN acc
     ELSE IF formatter_name \in DOMAIN ctx.formatters
       THEN LET formatter == ctx.formatters[formatter_name]
                r == runner_format(formatter, acc.buf, opts)
                calls == Append(acc.calls,
                           Call(formatter_name, formatter.cmd, opts, is_root, acc.buf))
            IN IF r.ok
               THEN [acc EXCEPT !.buf = r.result, !.calls = calls]
               ELSE [acc EXCEPT !.status = "err", !.error = r.error, !.calls = calls]
     ELSE IF formatter_name \in ctx.wasm_formatter
       THEN LET w == Command(formatter_name, acc.buf)
                calls == Append(acc.calls,
                           Call(formatter_name, "wasm", opts, is_root, acc.buf))
            IN IF w.success
               THEN [acc EXCEPT !.buf = w.stdout, !.calls = calls]
               ELSE [acc EXCEPT !.status = "err", !.error = <<"wasm", formatter_name>>,
                                !.calls = calls]
     ELSE acc

RECURSIVE RootPass(_, _, _, _, _)
RootPass(ctx, opts, is_root, specs, acc) ==
  IF Len(specs) = 0 \/ acc.status # "ok" THEN acc
  ELSE RootPass(ctx, opts, is_root, Tail(specs),
                FormatterStep(ctx, opts, is_root, Head(specs), acc))

\* Vec::sort_by(|a, b| b.cmp(&a)) on a list of keys: the indices of the
\* list in the order a stable sort, descending by key, leaves them in.
RECURSIVE InsertDesc(_, _, _)
InsertDesc(sorted, i, keys) ==
  IF Len(sorted) = 0 THEN <<i>>
  ELSE IF keys[Head(sorted)] >= keys[i]
    THEN <<Head(sorted)>> \o InsertDesc(Tail(sorted), i, keys)
  ELSE <<i>> \o sorted

RECURSIVE SortDescFrom(_, _, _)
SortDescFrom(i, sorted, keys) ==
  IF i > Len(keys) THEN sorted
  ELSE SortDescFrom(i + 1, InsertDesc(sorted, i, keys), keys)

SortDesc(keys) == SortDescFrom(1, <<>>, keys)

\* injected_regions.sort_by(|a, b| b.range.start_byte.cmp(&a.range.start_byte))
sort_regions(injected_regions) ==
  LET order == SortDesc([i \in 1..Len(injected_regions) |->
                           injected_regions[i].range.start_byte])
  IN [k \in 1..Len(order) |-> injected_regions[order[k]]]

\* region_results.sort_by(|(a, _), (b, _)| b.range.start_byte.cmp(&a.range.start_byte))
sort_results(region_results) ==
  LET order == SortDesc([i \in 1..Len(region_results) |->
                           region_results[i].region.range.start_byte])
  IN [k \in 1..Len(order) |-> region_results[order[k]]]

\* The language lookup and extract_language_injections on the buffer left
\* by the root-level pass, then the descending sort.
\* kind "return": no grammar, format returns the buffer as it is.
ExtractRegions(ctx, opts, formatted_result) ==
  IF opts.language \notin DOMAIN ctx.grammars THEN [kind |-> "return", regions |-> <<>>]
  ELSE LET e == extract_language_injections(
                  ctx.grammars[opts.language], formatted_result,
                  Parse(opts.language, with_newline(formatted_result).source_with_newline))
       IN IF e.status = "panic" THEN [kind |-> "panic", regions |-> <<>>]
          ELSE [kind |-> "regions", regions |-> sort_regions(e.regions)]

\* The indent taken from the distance to the start of the buffer rather
\* than to the start of the line.
NormalizeIndentFromStart(formatted_result, region, unescaped_source_str) ==
  LET indent == Min(region.range.start_byte, Len(formatted_result))
      min_indent == min_leading_indent(unescaped_source_str)
  IN IF indent > 0
       THEN [indent |-> indent, indent_from_content |-> FALSE,
             normalized_source |-> strip_leading_indent(unescaped_source_str, indent)]
     ELSE IF min_indent > 0
       THEN [indent |-> min_indent, indent_from_content |-> TRUE,
             normalized_source |-> strip_leading_indent(unescaped_source_str, min_indent)]
     ELSE [indent |-> 0, indent_from_content |-> FALSE,
           normalized_source |-> unescaped_source_str]

\* The indent normalisation of lines 77-89: [indent, indent_from_content,
\* normalized_source].
NormalizeIndent(formatted_result, region, unescaped_source_str) ==
  LET indent == column_for_byte(formatted_result, region.range.start_byte)
      min_indent == min_leading_indent(unescaped_source_str)
  IN IF indent > 0
       THEN [indent |-> indent, indent_from_content |-> FALSE,
             normalized_source |-> strip_leading_indent(unescaped_source_str, indent)]
     ELSE IF min_indent > 0
       THEN [indent |-> min_indent, indent_from_content |-> TRUE,
             normalized_source |-> strip_leading_indent(unescaped_source_str, min_indent)]
     ELSE [indent |-> 0, indent_from_content |-> FALSE,
           normalized_source |-> unescaped_source_str]

\* The saturating subtraction without the floor of 1.
AdjustedPrintwidthNoFloor(printwidth, indent) ==
  IF printwidth > indent THEN printwidth - indent ELSE 0

\* opts.printwidth.saturating_sub(indent as u32).max(1)
adjusted_printwidth(printwidth, indent) ==
  Max(IF printwidth > indent THEN printwidth - indent ELSE 0, 1)

\* A reassembly that keeps the newlines the formatter ended its output with.
ReassembleNoStrip(formatted_sub_result, source_slice, escape_chars, n) ==
  offset_lines(
    (IF n.indent_from_content /\ n.indent > 0
        /\ ~(Len(formatted_sub_result) > 0 /\ IsNewlineByte(formatted_sub_result[1]))
     THEN Spaces(n.indent) ELSE <<>>)
    \o (IF Len(escape_chars) > 0 THEN escape_text(formatted_sub_result, escape_chars)
        ELSE formatted_sub_result)
    \o trailing_newlines(source_slice),
    n.indent)

\* Lines 104-119: what a worker makes of the recursive call's output.
Reassemble(formatted_sub_result, source_slice, escape_chars, n) ==
  LET escaped == IF Len(escape_chars) > 0
                 THEN escape_text(formatted_sub_result, escape_chars)
                 ELSE formatted_sub_result
      with_newlines == strip_trailing_newlines(escaped) \o trailing_newlines(source_slice)
      prefixed == IF n.indent_from_content /\ n.indent > 0
                     /\ ~(Len(with_newlines) > 0 /\ IsNewlineByte(with_newlines[1]))
                  THEN Spaces(n.indent) \o with_newlines
                  ELSE with_newlines
  IN offset_lines(prefixed, n.indent)

RECURSIVE format(_, _, _, _, _)

\* A worker that falls back to the region's bytes when its recursive call
\* fails.
WorkerResultFallback(region, source_slice, escape_chars, n, sub) ==
  IF sub.status # "ok"
  THEN [status |-> "ok", region |-> region, buf |-> source_slice,
        error |-> <<>>, calls |-> sub.calls]
  ELSE [status |-> "ok", region |-> region,
        buf |-> Reassemble(sub.buf, source_slice, escape_chars, n),
        error |-> <<>>, calls |-> sub.calls]

\* Lines 104-121 of the closure: the Result the worker returns for the
\* outcome `sub` of its recursive call.
WorkerResult(region, source_slice, escape_chars, n, sub) ==
  IF sub.status # "ok"
  THEN [status |-> sub.status, region |-> region, buf |-> <<>>,
        error |-> sub.error, calls |-> sub.calls]
  ELSE [status |-> "ok", region |-> region,
        buf |-> Reassemble(sub.buf, source_slice, escape_chars, n),
        error |-> <<>>, calls |-> sub.calls]

\* Lines 92-103: the recursive call on the normalised region text.
WorkerRecurse(ctx, opts, format_root, region, source_slice, escape_chars, n) ==
  WorkerResult(region, source_slice, escape_chars, n,
    format(ctx,
           FormatOpts(adjusted_printwidth(opts.printwidth, n.indent), region.lang),
           format_root, FALSE, n.normalized_source))

\* Lines 70-89: unescaping and indent normalisation of the slice.
WorkerOnSlice(ctx, opts, format_root, formatted_result, region, source_slice, escape_chars) ==
  WorkerRecurse(ctx, opts, format_root, region, source_slice, escape_chars,
    NormalizeIndent(formatted_result, region,
      IF Len(escape_chars) = 0 THEN source_slice
      ELSE unescape_text(source_slice, escape_chars)))

\* The closure run for one region by par_iter().map(); slicing the buffer
\* with an inverted or out-of-bounds range panics.
Worker(ctx, opts, format_root, formatted_result, region) ==
  IF region.range.start_byte > region.range.end_byte
     \/ region.range.end_byte > Len(formatted_result)
  THEN [status |-> "panic", region |-> region, buf |-> <<>>, error |-> <<>>,
        calls |-> <<>>]
  ELSE WorkerOnSlice(ctx, opts, format_root, formatted_result, region,
         Slice(formatted_result, region.range.start_byte, region.range.end_byte),
         sort_escape_chars(region.opts.escape_chars))

\* A join that drops the failed regions and hands the others to the splice.
CollectPartial(formatted_regions) ==
  [status |-> "ok", error |-> <<>>,
   region_results |->
     sort_results(SelectSeq(formatted_regions, LAMBDA r : r.status = "ok"))]

\* Lines 124-129: a panic of a worker unwinds through the parallel
\* iterator; otherwise the first Err in region order is returned; otherwise
\* the results are sorted for the splice.
Collect(formatted_regions) ==
  LET idx == 1..Len(formatted_regions)
      errs == {i \in idx : formatted_regions[i].status = "err"}
  IN IF \E i \in idx : formatted_regions[i].status = "panic"
       THEN [status |-> "panic", error |-> <<>>, region_results |-> <<>>]
     ELSE IF errs # {}
       THEN [status |-> "err",
             error |-> formatted_regions[CHOOSE i \in errs : \A j \in errs : i <= j].error,
             region_results |-> <<>>]
     ELSE [status |-> "ok", error |-> <<>>,
           region_results |-> sort_results(formatted_regions)]

\* Vec::splice(start..end, replacement); <<>> (None) when the range is
\* inverted or past the end, where splice panics.
Splice(formatted_result, result) ==
  LET start == result.region.range.start_byte
      end == result.region.range.end_byte
  IN IF start > end \/ end > Len(formatted_result) THEN <<>>
     ELSE <<Slice(formatted_result, 0, start) \o result.buf
            \o Slice(formatted_result, end, Len(formatted_result))>>

RECURSIVE SpliceAll(_, _)
SpliceAll(formatted_result, region_results) ==
  IF Len(region_results) = 0 THEN [status |-> "ok", buf |-> formatted_result]
  ELSE LET s == Splice(formatted_result, Head(region_results))
       IN IF Len(s) = 0 THEN [status |-> "panic", buf |-> formatted_result]
          ELSE SpliceAll(s[1], Tail(region_results))

RECURSIVE ConcatCalls(_)
ConcatCalls(results) ==
  IF Len(results) = 0 THEN <<>>
  ELSE Head(results).calls \o ConcatCalls(Tail(results))

Frame(status, buf, error, calls) ==
  [status |-> status, buf |-> buf, error |-> error, calls |-> calls]

\* Lines 131-138: the frame's result after the splice loop.
FormatSpliced(calls, spliced) == Frame(spliced.status, spliced.buf, <<>>, calls)

\* Lines 124-129: the frame's result once the results are collected.
FormatCollected(root, calls, c) ==
  IF c.status # "ok" THEN Frame(c.status, root.buf, c.error, calls)
  ELSE FormatSpliced(calls, SpliceAll(root.buf, c.region_results))

FormatJoined(root, formatted_regions) ==
  FormatCollected(root, root.calls \o ConcatCalls(formatted_regions),
                  Collect(formatted_regions))

\* Lines 56-122: nothing more to do without a grammar; otherwise one worker
\* per region, evaluated in region order, which is the order collect()
\* returns them in.
FormatExtracted(ctx, opts, format_root, root, e) ==
  IF e.kind = "return" THEN root
  ELSE IF e.kind = "panic" THEN Frame("panic", root.buf, <<>>, root.calls)
  ELSE FormatJoined(root,
         [i \in 1..Len(e.regions) |->
            Worker(ctx, opts, format_root, root.buf, e.regions[i])])

FormatRooted(ctx, opts, format_root, root) ==
  IF root.status # "ok" THEN root
  ELSE FormatExtracted(ctx, opts, format_root, root,
                       ExtractRegions(ctx, opts, root.buf))

\* A format that looks the grammar up before the root-level pass and
\* returns the source when there is none.
FormatGrammarFirst(ctx, opts, format_root, is_root, source) ==
  IF opts.language \notin DOMAIN ctx.grammars THEN Frame("ok", source, <<>>, <<>>)
  ELSE FormatRooted(ctx, opts, format_root,
         RootPass(ctx, opts, is_root, SpecsFor(ctx, opts, format_root, is_root),
                  Frame("ok", source, <<>>, <<>>)))

\* format(source, opts, format_root, is_root, format_context), the call a
\* worker makes for its region.
format(ctx, opts, format_root, is_root, source) ==
  FormatRooted(ctx, opts, format_root,
    RootPass(ctx, opts, is_root, SpecsFor(ctx, opts, format_root, is_root),
             Frame("ok", source, <<>>, <<>>)))

(***************************************************************************)
(* The top-level call of format as a state machine.  Its region workers    *)
(* run in parallel: each Work step is the return of one worker, in any      *)
(* order.  The calls the workers make for their regions are evaluated by    *)
(* the operator format above.                                              *)
(***************************************************************************)
VARIABLES
  source,            \* the caller's buffer
  opts,              \* FormatOpts
  format_root,
  is_root,
  format_context,    \* FormatContext
  language_aliases,  \* Config.language_aliases: alias -> canonical
  pc,                \* "root", "fanout", "reassemble", "done", "failed", "panicked"
  spec_index,        \* how many specs the root-level loop has gone through
  formatted_result,
  injected_regions,  \* sorted, as the workers see them
  formatted_regions, \* per region: <<>> while its worker runs, <<result>> after
  completion_order,  \* the indices of the regions in the order the workers returned
  region_results,    \* what is left to splice
  error,
  calls,             \* the formatter invocations of the root-level pass
  txt,               \* the state of the text utility harness
  ext,               \* the state of the extraction harness
  cfg                \* the state of the config load harness

vars == <<source, opts, format_root, is_root, format_context, language_aliases, pc,
          spec_index, formatted_result, injected_regions, formatted_regions,
          completion_order, region_results, error, calls, txt, ext, cfg>>

inputs == <<source, opts, format_root, is_root, format_context, language_aliases>>

MaxSourceLen == 4
PrintWidth == 2

SourceAlphabet == {"a", SP, NL, PIPE, BS}
Sources == SeqsUpTo(SourceAlphabet, MaxSourceLen)
RootLanguages == {"md", "clj"}

Formatters ==
  [cat |-> FormatterSpec("cat"), dup |-> FormatterSpec("dup"), sq |-> FormatterSpec("sq"),
   echo |-> FormatterSpec("echo"), false |-> FormatterSpec("false"),
   strict |-> FormatterSpec("strict")]

Context(languages) ==
  [grammars |-> Grammars, languages |-> languages, formatters |-> Formatters,
   wasm_formatter |-> {}]

\* The [languages] tables of the configurations the model runs under.
IdentityLanguages ==
  [md |-> <<Bare("cat")>>, clj |-> <<Bare("cat")>>, typescript |-> <<Bare("cat")>>,
   ts |-> <<Bare("cat")>>, txt |-> <<Bare("cat")>>]

MixedLanguages ==
  [md |-> <<Table("dup", TRUE, FALSE), Table("sq", FALSE, FALSE), Bare("nofmt")>>,
   clj |-> <<Table("sq", FALSE, TRUE), Bare("dup")>>,
   typescript |-> <<Bare("sq")>>,
   ts |-> <<Bare("dup")>>,
   txt |-> <<Bare("dup"), Bare("nofmt"), Table("sq", FALSE, TRUE)>>]

EmptyLanguages ==
  [md |-> <<Bare("cat")>>, clj |-> <<Bare("echo"), Bare("dup")>>,
   typescript |-> <<Bare("dup")>>]

FailingLanguages ==
  [md |-> <<Bare("dup")>>,
   clj |-> <<Table("strict", FALSE, TRUE), Table("false", TRUE, FALSE), Bare("dup")>>,
   typescript |-> <<Bare("dup")>>]

Contexts ==
  {Context(IdentityLanguages), Context(MixedLanguages), Context(EmptyLanguages),
   Context(FailingLanguages)}

NoHarness == [phase |-> "off"]

Init ==
  /\ source \in Sources
  /\ opts \in {FormatOpts(PrintWidth, l) : l \in RootLanguages}
  /\ format_root \in BOOLEAN
  /\ is_root \in BOOLEAN
  /\ format_context \in Contexts
  /\ language_aliases = [ts |-> "typescript"]
  /\ pc = "root"
  /\ spec_index = 0
  /\ formatted_result = source
  /\ injected_regions = <<>>
  /\ formatted_regions = <<>>
  /\ completion_order = <<>>
  /\ region_results = <<>>
  /\ error = <<>>
  /\ calls = <<>>
  /\ txt = NoHarness
  /\ ext = NoHarness
  /\ cfg = NoHarness

RootSpecs == SpecsFor(format_context, opts, format_root, is_root)

\* One iteration of the loop over the language's formatter specs.
RootFormatted(acc) ==
  /\ formatted_result' = acc.buf
  /\ calls' = acc.calls
  /\ error' = acc.error
  /\ pc' = IF acc.status = "ok" THEN "root" ELSE "failed"

RootFormat ==
  /\ pc = "root"
  /\ spec_index < Len(RootSpecs)
  /\ RootFormatted(FormatterStep(format_context, opts, is_root,
                                 RootSpecs[spec_index + 1],
                                 Frame("ok", formatted_result, <<>>, calls)))
  /\ spec_index' = spec_index + 1
  /\ UNCHANGED <<inputs, injected_regions, formatted_regions, completion_order,
                 region_results, txt, ext, cfg>>

\* The grammar lookup, the extraction and the sort, after the loop.
Extracted(e) ==
  /\ pc' = CASE e.kind = "return" -> "done"
             [] e.kind = "panic" -> "panicked"
             [] OTHER -> "fanout"
  /\ injected_regions' = e.regions
  /\ formatted_regions' = [i \in 1..Len(e.regions) |-> <<>>]

Extract ==
  /\ pc = "root"
  /\ spec_index = Len(RootSpecs)
  /\ Extracted(ExtractRegions(format_context, opts, formatted_result))
  /\ UNCHANGED <<inputs, spec_index, formatted_result, completion_order, region_results,
                 error, calls, txt, ext, cfg>>

\* The results of the workers that have returned, in region order.
RECURSIVE FinishedFrom(_, _)
FinishedFrom(results, i) ==
  IF i > Len(results) THEN <<>>
  ELSE (IF Len(results[i]) > 0 THEN <<results[i][1]>> ELSE <<>>)
       \o FinishedFrom(results, i + 1)

\* A worker that splices its result into the shared buffer as soon as it
\* returns, instead of handing it to the join.
WorkerInputSpliced(buffer, results) ==
  SpliceAll(buffer,
            SelectSeq(FinishedFrom(results, 1), LAMBDA r : r.status = "ok")).buf

\* The buffer the worker of a region slices and measures: the shared
\* borrow of formatted_result, which nothing writes before the join.
WorkerInput(buffer, results) == buffer

\* par_iter().map().collect(): the result of region i lands at index i.
StoreResult(results, i, result) == [results EXCEPT ![i] = <<result>>]

\* The worker of region i returns.
Work(i) ==
  /\ pc = "fanout"
  /\ i \in 1..Len(injected_regions)
  /\ formatted_regions[i] = <<>>
  /\ formatted_regions' =
       StoreResult(formatted_regions, i,
         Worker(format_context, opts, format_root,
                WorkerInput(formatted_result, formatted_regions), injected_regions[i]))
  /\ completion_order' = Append(completion_order, i)
  /\ UNCHANGED <<inputs, pc, spec_index, formatted_result, injected_regions,
                 region_results, error, calls, txt, ext, cfg>>

Joined(c) ==
  /\ pc' = CASE c.status = "panic" -> "panicked"
             [] c.status = "err" -> "failed"
             [] OTHER -> "reassemble"
  /\ error' = c.error
  /\ region_results' = c.region_results

\* A join that does not wait for the workers still running.
JoinEarly ==
  /\ pc = "fanout"
  /\ Joined(Collect(FinishedFrom(formatted_regions, 1)))
  /\ UNCHANGED <<inputs, spec_index, formatted_result, injected_regions,
                 formatted_regions, completion_order, calls, txt, ext, cfg>>

\* The join: every worker has returned.
Join ==
  /\ pc = "fanout"
  /\ \A i \in 1..Len(formatted_regions) : formatted_regions[i] # <<>>
  /\ Joined(Collect([i \in 1..Len(formatted_regions) |-> formatted_regions[i][1]]))
  /\ UNCHANGED <<inputs, spec_index, formatted_result, injected_regions,
                 formatted_regions, completion_order, calls, txt, ext, cfg>>

Spliced(s) ==
  IF Len(s) = 0
  THEN pc' = "panicked" /\ UNCHANGED formatted_result
  ELSE pc' = "reassemble" /\ formatted_result' = s[1]

\* One iteration of the splice loop.
SpliceNext ==
  /\ pc = "reassemble"
  /\ Len(region_results) > 0
  /\ Spliced(Splice(formatted_result, Head(region_results)))
  /\ region_results' = Tail(region_results)
  /\ UNCHANGED <<inputs, spec_index, injected_regions, formatted_regions,
                 completion_order, error, calls, txt, ext, cfg>>

\* Ok(formatted_result)
Return ==
  /\ pc = "reassemble"
  /\ Len(region_results) = 0
  /\ pc' = "done"
  /\ UNCHANGED <<inputs, spec_index, formatted_result, injected_regions,
                 formatted_regions, completion_order, region_results, error, calls,
                 txt, ext, cfg>>

Next ==
  \/ RootFormat
  \/ Extract
  \/ \E i \in 1..Len(injected_regions) : Work(i)
  \/ Join
  \/ SpliceNext
  \/ Return

Spec == Init /\ [][Next]_vars

(***************************************************************************)
(* What the top-level call has done so far.                                *)
(***************************************************************************)

Terminal == pc \in {"done", "failed", "panicked"}

Finished == FinishedFrom(formatted_regions, 1)

\* Every formatter invocation made so far, at the root level and below.
AllCalls == calls \o ConcatCalls(Finished)

\* The calls made by frames of one language; in the fixture grammars the
\* language changes at every level of the recursion.
CallsFor(cs, language) == SelectSeq(cs, LAMBDA c : c.language = language)

FormatterNames(cs) == [k \in 1..Len(cs) |-> cs[k].formatter]

\* The formatter of the call exited successfully and wrote back its input.
Unmodified(call) ==
  call.cmd # "wasm" /\ Command(call.cmd, call.input).success
  /\ Command(call.cmd, call.input).stdout = call.input

\* The formatter of the call exited successfully and wrote nothing.
EmptyResult(call) ==
  call.cmd # "wasm" /\ Command(call.cmd, call.input).success
  /\ Len(Command(call.cmd, call.input).stdout) = 0

(***************************************************************************)
(* C1  Byte accounting.                                                    *)
(***************************************************************************)

\* C1: whenever every formatter invocation returned its input unchanged (or
\* none was made), format returns Ok with a buffer equal to source byte for
\* byte.
C1_ByteAccounting ==
  (Terminal /\ \A k \in 1..Len(AllCalls) : Unmodified(AllCalls[k]))
    => (pc = "done" /\ formatted_result = source)

(***************************************************************************)
(* C2  Worker-order independence.                                          *)
(***************************************************************************)

\* What the call returns: Ok(buffer), Err(error) or a panic.
Outcome ==
  CASE pc = "done" -> <<"ok", formatted_result>>
    [] pc = "failed" -> <<"err", error>>
    [] OTHER -> <<"panic">>

OutcomeOf(frame) ==
  CASE frame.status = "ok" -> <<"ok", frame.buf>>
    [] frame.status = "err" -> <<"err", frame.error>>
    [] OTHER -> <<"panic">>

C8_EmptyResultIsError ==
  \A k \in 1..Len(calls) :
    (EmptyResult(calls[k]) /\ Len(calls[k].input) > 0) =>
      /\ pc = "failed"
      /\ error = <<"Unexpected empty result received from formatter", calls[k].cmd>>
      /\ formatted_result = calls[k].input

(***************************************************************************)
(* C9  The formatter run condition.                                        *)
(***************************************************************************)

LangSpecs(language) ==
  IF language \in DOMAIN format_context.languages
  THEN format_context.languages[language] ELSE <<>>

Registered(format_spec) ==
  format_spec.formatter \in DOMAIN format_context.formatters
  \/ format_spec.formatter \in format_context.wasm_formatter

\* The run condition as the claim words it; a bare name counts as true/true.
ClaimedToRun(format_spec, root, froot) ==
  \/ root /\ froot /\ (format_spec.kind = "String" \/ format_spec.run_in_root)
  \/ ~root /\ (format_spec.kind = "String" \/ format_spec.run_in_injections)

\* The names of the formatters the claim has invoked among the first n specs
\* of the language.
ExpectedNames(language, root, froot, n) ==
  FormatterNames(
    SelectSeq(SubSeq(LangSpecs(language), 1, n),
              LAMBDA fs : Registered(fs) /\ ClaimedToRun(fs, root, froot)))

\* C9: among the specs of the current language that the loop has reached,
\* the registered formatters invoked are, in order, exactly those with
\* (is_root and format_root and run_in_root) or (not is_root and
\* run_in_injections); this holds at the root level and for every region.
C9_RunCondition ==
  /\ FormatterNames(calls) =
       ExpectedNames(opts.language, is_root, format_root,
                     IF ~is_root \/ format_root THEN spec_index ELSE 0)
  /\ pc \notin {"root", "failed"} =>
       FormatterNames(calls) =
         ExpectedNames(opts.language, is_root, format_root,
                       Len(LangSpecs(opts.language)))
  /\ \A i \in 1..Len(formatted_regions) :
       (Len(formatted_regions[i]) > 0 /\ formatted_regions[i][1].status = "ok") =>
         FormatterNames(CallsFor(formatted_regions[i][1].calls,
                                 injected_regions[i].lang)) =
           ExpectedNames(injected_regions[i].lang, FALSE, format_root,
                         Len(LangSpecs(injected_regions[i].lang)))

\* With format_root = false a root document whose language has formatters
\* is returned with its regions formatted and the root level untouched.
C9_Witness ==
  /\ pc = "done" /\ is_root /\ ~format_root
  /\ calls = <<>>
  /\ \E k \in 1..Len(LangSpecs(opts.language)) :
       Registered(LangSpecs(opts.language)[k])
       /\ run_in_root(LangSpecs(opts.language)[k])
  /\ \E i \in 1..Len(formatted_regions) :
       /\ Len(formatted_regions[i][1].calls) > 0
       /\ \E k \in 1..Len(LangSpecs(injected_regions[i].lang)) :
            ~run_in_root(LangSpecs(injected_regions[i].lang)[k])
  /\ formatted_result # source

(***************************************************************************)
(* C10  Alias resolution.                                                  *)
(***************************************************************************)

\* C10: a non-empty region whose language is not a key of the grammar table but is a
\* key of the alias map is formatted as a region of the canonical language:
\* its worker invokes the formatters of the canonical language and returns
\* their output.
C10_AliasResolution ==
  pc = "fanout" =>
    \A i \in 1..Len(formatted_regions) :
      (/\ Len(formatted_regions[i]) > 0
       /\ injected_regions[i].range.start_byte < injected_regions[i].range.end_byte
       /\ injected_regions[i].lang \notin DOMAIN format_context.grammars
       /\ injected_regions[i].lang \in DOMAIN language_aliases) =>
        /\ FormatterNames(formatted_regions[i][1].calls) =
             ExpectedNames(language_aliases[injected_regions[i].lang], FALSE,
                           format_root,
                           Len(LangSpecs(language_aliases[injected_regions[i].lang])))
        /\ formatted_regions[i][1].buf =
             Worker(format_context, opts, format_root, formatted_result,
                    [injected_regions[i] EXCEPT
                       !.lang = language_aliases[injected_regions[i].lang]]).buf

(***************************************************************************)
(* The text utilities on their own: escape_text and unescape_text applied  *)
(* to a text and an escape set as a worker applies them.                   *)
(***************************************************************************)

MaxTextLen == 3

TextAlphabet == {"a", "b", BS}
Texts == SeqsUpTo(TextAlphabet, MaxTextLen)

\* The strings an escape! directive may list.
EscapeStrings == {<<"a">>, <<"b">>, <<"a", "b">>, <<"a", BS, "b">>}

NoWorker ==
  /\ source = <<>> /\ opts = FormatOpts(PrintWidth, "md")
  /\ format_root = FALSE /\ is_root = FALSE
  /\ format_context = Context(IdentityLanguages)
  /\ language_aliases = [ts |-> "typescript"]
  /\ pc = "off" /\ spec_index = 0 /\ formatted_result = <<>>
  /\ injected_regions = <<>> /\ formatted_regions = <<>> /\ completion_order = <<>>
  /\ region_results = <<>> /\ error = <<>> /\ calls = <<>>

frame == <<source, opts, format_root, is_root, format_context, language_aliases, pc,
           spec_index, formatted_result, injected_regions, formatted_regions,
           completion_order, region_results, error, calls>>

InitText ==
  /\ NoWorker
  /\ ext = NoHarness
  /\ cfg = NoHarness
  /\ txt \in [phase : {"input"}, text : Texts, escape_chars : SUBSET EscapeStrings,
              escaped : {<<>>}, unescaped : {<<>>}]

\* escape_text(text, sort_escape_chars(E))
TextEscape ==
  /\ txt.phase = "input"
  /\ txt' = [txt EXCEPT !.phase = "escaped",
                        !.escaped = escape_text(txt.text,
                                      sort_escape_chars(txt.escape_chars))]
  /\ UNCHANGED <<frame, ext, cfg>>

\* unescape_text(escaped, sort_escape_chars(E))
TextUnescape ==
  /\ txt.phase = "escaped"
  /\ txt' = [txt EXCEPT !.phase = "unescaped",
                        !.unescaped = unescape_text(txt.escaped,
                                        sort_escape_chars(txt.escape_chars))]
  /\ UNCHANGED <<frame, ext, cfg>>

NextText == TextEscape \/ TextUnescape

SpecText == InitText /\ [][NextText]_vars

(***************************************************************************)
(* C3  Round trip of escape.                                               *)
(***************************************************************************)

BackslashFree(E) == \A e \in E : \A k \in 1..Len(e) : e[k] # BS

\* C3 as stated: for every text B and every set E of escape strings,
\* unescape_text(escape_text(B, E), sort_escape_chars(E)) = B.
C3_RoundTripAnySet ==
  txt.phase = "unescaped" => txt.unescaped = txt.text

\* C3 as amended: for every text B and every set E of non-empty escape
\* strings none of which contains a backslash,
\* unescape_text(escape_text(B, E), sort_escape_chars(E)) = B.
C3_RoundTrip ==
  (txt.phase = "unescaped" /\ BackslashFree(txt.escape_chars))
    => txt.unescaped = txt.text

\* A text with a backslash and with an escape string of a set of two
\* lengths went through both passes and came back.
C3_Witness ==
  /\ txt.phase = "unescaped"
  /\ txt.escape_chars = {<<"a">>, <<"a", "b">>}
  /\ txt.text = <<"a", "b", BS>>
  /\ txt.escaped = <<BS, "a", "b", BS, BS>>
  /\ txt.unescaped = txt.text

(***************************************************************************)
(* crates/cli/src/api/ignore.rs                                            *)
(*                                                                         *)
(* A parse is the list of the named children of the root node, in document *)
(* order: [kind, marker, range], marker telling whether the node's text    *)
(* contains "pruner-ignore".                                               *)
(***************************************************************************)

is_comment_node(node) == node.kind = "comment"

\* The next named sibling after position i that is not a comment, as an
\* Option.
RECURSIVE MarkerTarget(_, _)
MarkerTarget(nodes, i) ==
  IF i + 1 > Len(nodes) THEN <<>>
  ELSE IF is_comment_node(nodes[i + 1]) THEN MarkerTarget(nodes, i + 1)
  ELSE <<nodes[i + 1]>>

add_marker(nodes, i) ==
  <<nodes[i].range>>
  \o (IF Len(MarkerTarget(nodes, i)) > 0 THEN <<MarkerTarget(nodes, i)[1].range>>
      ELSE <<>>)

RECURSIVE VisitFrom(_, _)
VisitFrom(nodes, i) ==
  IF i > Len(nodes) THEN <<>>
  ELSE (IF is_comment_node(nodes[i]) /\ nodes[i].marker THEN add_marker(nodes, i)
        ELSE <<>>)
       \o VisitFrom(nodes, i + 1)

\* collect_ignore_ranges(root, source, None)
collect_ignore_ranges(nodes) == VisitFrom(nodes, 1)

is_ignored(range, ignore_ranges) ==
  \E k \in 1..Len(ignore_ranges) :
    /\ range.start_byte >= ignore_ranges[k].start_byte
    /\ range.end_byte <= ignore_ranges[k].end_byte

(***************************************************************************)
(* extract_language_injections on its own, for a fixture grammar whose     *)
(* documents are rows of nodes: a run of one letter is a node; a run of    *)
(* "a" or of "b" is an item, which takes in the newline that ends its      *)
(* line; a run of "c" is a comment and a run of "m" a comment whose text   *)
(* contains "pruner-ignore".  The injections query captures every item as  *)
(* @injection.content.                                                     *)
(***************************************************************************)

MaxExtractLen == 3

ExtractAlphabet == {"a", "b", "c", "m", NL}
ExtractSources == SeqsUpTo(ExtractAlphabet, MaxExtractLen)

RECURSIVE RunEnd(_, _, _)
RunEnd(text, c, i) ==
  IF i < Len(text) /\ text[i + 1] = c THEN RunEnd(text, c, i + 1) ELSE i

NodeEnd(text, c, e) ==
  IF c \in {"a", "b"} /\ e < Len(text) /\ text[e + 1] = NL THEN e + 1 ELSE e

RECURSIVE NodesFrom(_, _)
NodesFrom(text, i) ==
  IF i >= Len(text) THEN <<>>
  ELSE IF text[i + 1] = NL THEN NodesFrom(text, i + 1)
  ELSE <<[kind |-> IF text[i + 1] \in {"c", "m"} THEN "comment" ELSE "item",
          marker |-> text[i + 1] = "m",
          range |-> NodeRange(text, i, NodeEnd(text, text[i + 1], RunEnd(text, text[i + 1], i)))]>>
       \o NodesFrom(text, NodeEnd(text, text[i + 1], RunEnd(text, text[i + 1], i)))

\* parser.parse(text): the named children of the root.
NodesOf(text) == NodesFrom(text, 0)

\* cursor.matches(query, root, text): one match of pattern 0 per item.
MatchesOf(text) ==
  LET items == SelectSeq(NodesOf(text), LAMBDA n : n.kind = "item")
  IN [i \in 1..Len(items) |->
       [pattern_index |-> 0,
        captures |-> <<[name |-> CONTENT, range |-> items[i].range, text |-> "",
                        parent |-> NodeRange(text, 0, Len(text))]>>]]

OffsetPredicate(capture, start_row, start_col, end_row, end_col) ==
  [operator |-> "offset!", capture |-> capture, malformed |-> FALSE,
   offset |-> [start_row |-> start_row, start_col |-> start_col,
               end_row |-> end_row, end_col |-> end_col]]

\* (item) @injection.content with injection.language "x", the given
\* predicates and, when `combined`, the injection.combined property.
ItemQuery(predicates, combined) ==
  [has_content_capture |-> TRUE, has_language_capture |-> FALSE,
   patterns |-> <<[language |-> <<"x">>, predicates |-> predicates,
                   combined |-> combined]>>]

ExtractQueries ==
  {ItemQuery(<<>>, FALSE),
   ItemQuery(<<EscapePredicate(CONTENT, {<<PIPE>>})>>, TRUE),
   ItemQuery(<<OffsetPredicate(CONTENT, 0, 1, 0, -1)>>, FALSE),
   ItemQuery(<<OffsetPredicate(CONTENT, 0, 0, 0, 1)>>, FALSE),
   ItemQuery(<<OffsetPredicate(CONTENT, 1, 0, 0, 0)>>, FALSE),
   ItemQuery(<<OffsetPredicate(CONTENT, 0, -1, 0, 0)>>, FALSE)}

NoResult == [status |-> "none", regions |-> <<>>]

InitExtract ==
  /\ NoWorker
  /\ txt = NoHarness
  /\ cfg = NoHarness
  /\ ext \in [phase : {"input"}, source : ExtractSources, query : ExtractQueries,
              result : {NoResult}, result_with_newline : {NoResult}]

\* extract_language_injections(parser, grammar, source)
ExtractCall ==
  /\ ext.phase = "input"
  /\ ext' = [ext EXCEPT
       !.phase = "extracted",
       !.result = extract_language_injections(
                    ext.query, ext.source,
                    MatchesOf(with_newline(ext.source).source_with_newline))]
  /\ UNCHANGED <<frame, txt, cfg>>

\* extract_language_injections(parser, grammar, source + "\n")
ExtractCallWithNewline ==
  /\ ext.phase = "extracted"
  /\ ext' = [ext EXCEPT
       !.phase = "both",
       !.result_with_newline =
          extract_language_injections(
            ext.query, Append(ext.source, NL),
            MatchesOf(with_newline(Append(ext.source, NL)).source_with_newline))]
  /\ UNCHANGED <<frame, txt, cfg>>

NextExtract == ExtractCall \/ ExtractCallWithNewline

SpecExtract == InitExtract /\ [][NextExtract]_vars

\* The text the parser saw for the first call, its nodes and its matches.
ParsedText == with_newline(ext.source).source_with_newline
ParsedNodes == NodesOf(ParsedText)
ParsedMatches == MatchesOf(ParsedText)

(***************************************************************************)
(* C4  Ignored containment.                                                *)
(***************************************************************************)

\* C4: no returned region (of at least one byte) lies inside a range
\* collect_ignore_ranges computes for the same parse, and without offsets
\* every item outside all of them is returned.
C4_IgnoredContainment ==
  ext.phase \in {"extracted", "both"} =>
    /\ \A k \in 1..Len(ext.result.regions) :
         ext.result.regions[k].range.start_byte < ext.result.regions[k].range.end_byte
         => ~is_ignored(ext.result.regions[k].range, collect_ignore_ranges(ParsedNodes))
    /\ Len(ext.query.patterns[1].predicates) = 0 =>
         \A m \in 1..Len(ParsedMatches) :
           is_ignored(ParsedMatches[m].captures[1].range,
                      collect_ignore_ranges(ParsedNodes))
           \/ \E k \in 1..Len(ext.result.regions) :
                ext.result.regions[k].range.start_byte =
                  ParsedMatches[m].captures[1].range.start_byte

(***************************************************************************)
(* C5  Combined merging.                                                   *)
(***************************************************************************)

MinStart(matches) ==
  CHOOSE b \in {matches[m].captures[1].range.start_byte : m \in 1..Len(matches)} :
    \A m \in 1..Len(matches) : b <= matches[m].captures[1].range.start_byte

MaxEnd(matches) ==
  CHOOSE b \in {matches[m].captures[1].range.end_byte : m \in 1..Len(matches)} :
    \A m \in 1..Len(matches) : b >= matches[m].captures[1].range.end_byte

\* C5: under injection.combined the matches of one pattern with one language
\* and one parent yield exactly one region, spanning [min start, max end]
\* with the union of the escape sets; without the property there is one
\* region per match.  (Every match of the fixture query has pattern 0,
\* language "x" and the root as its parent.)
C5_CombinedMerging ==
  (ext.phase \in {"extracted", "both"} /\ ext.result.status = "ok"
   /\ Len(ParsedMatches) > 0) =>
    IF ext.query.patterns[1].combined
    THEN /\ Len(ext.result.regions) = 1
         /\ ext.result.regions[1].range.start_byte = MinStart(ParsedMatches)
         /\ ext.result.regions[1].range.end_byte =
              Min(MaxEnd(ParsedMatches), Len(ext.source))
         /\ ext.result.regions[1].opts.escape_chars =
              get_escape_modifiers(ext.query.patterns[1].predicates, CONTENT)
    ELSE Len(ext.result.regions) = Len(ParsedMatches)

(***************************************************************************)
(* C6  Appended-newline transparency.                                      *)
(***************************************************************************)

EndsInNewline(text) == Len(text) > 0 /\ text[Len(text)] = NL

\* The region with (end_byte, end_point) replaced by the end of `text` when
\* it ends at or after it.
ClampedTo(text, region) ==
  IF region.range.end_byte >= Len(text)
  THEN [region EXCEPT !.range.end_byte = Len(text),
                      !.range.end_point = point_for_byte(text, Len(text))]
  ELSE region

\* C6: for a source S that does not end in "\n", the call on S returns the
\* regions of the call on S + "\n", each with (end_byte, end_point) replaced
\* by (len(S), point_for_byte(S, len(S))) when its end_byte >= len(S) and
\* identical otherwise.
C6_AppendedNewlineTransparency ==
  (ext.phase = "both" /\ ~EndsInNewline(ext.source)) =>
    /\ ext.result.status = ext.result_with_newline.status
    /\ Len(ext.result.regions) = Len(ext.result_with_newline.regions)
    /\ \A k \in 1..Len(ext.result.regions) :
         ext.result.regions[k] =
           ClampedTo(ext.source, ext.result_with_newline.regions[k])

\* A source without a final newline with a region that ends before len(S)
\* and a region that takes in the appended newline.
C6_Witness ==
  /\ ext.phase = "both" /\ ~EndsInNewline(ext.source)
  /\ \E k \in 1..Len(ext.result_with_newline.regions) :
       /\ ext.result_with_newline.regions[k].range.end_byte > Len(ext.source)
       /\ ext.result.regions[k] # ext.result_with_newline.regions[k]
       /\ ext.result.regions[k].range.end_point.row
            # ext.result_with_newline.regions[k].range.end_point.row
  /\ \E k \in 1..Len(ext.result_with_newline.regions) :
       /\ ext.result_with_newline.regions[k].range.end_byte < Len(ext.source)
       /\ ext.result.regions[k] = ext.result_with_newline.regions[k]

(***************************************************************************)
(* C7  Nested or disjoint regions.                                         *)
(***************************************************************************)

Contains(r1, r2) == r1.start_byte <= r2.start_byte /\ r2.end_byte <= r1.end_byte

Disjoint(r1, r2) == r1.end_byte <= r2.start_byte \/ r2.end_byte <= r1.start_byte

\* C7: any two regions one call returns are nested or disjoint.
C7_NestedOrDisjoint ==
  ext.phase \in {"extracted", "both"} =>
    \A i, j \in 1..Len(ext.result.regions) :
      \/ Contains(ext.result.regions[i].range, ext.result.regions[j].range)
      \/ Contains(ext.result.regions[j].range, ext.result.regions[i].range)
      \/ Disjoint(ext.result.regions[i].range, ext.result.regions[j].range)


(***************************************************************************)
(* crates/cli/src/config.rs: load turns the [language_aliases] table of    *)
(* the merged config file, canonical -> [aliases], into alias -> canonical.*)
(* The table is a HashMap, so the outer loop visits the canonicals in an   *)
(* order the program does not control.                                     *)
(***************************************************************************)

MaxAliases == 2

Canonicals == {"typescript", "rust"}
Aliases == {"ts", "tsx"}
AliasLists == SeqsUpTo(Aliases, MaxAliases)

\* The values config_file.language_aliases.unwrap_or_default() may have.
AliasTables == UNION {[D -> AliasLists] : D \in SUBSET Canonicals}

EmptyMap == [a \in {} |-> ""]

\* HashMap::insert
MapInsert(map, key, value) ==
  [k \in (DOMAIN map) \cup {key} |-> IF k = key THEN value ELSE map[k]]

\* An inner loop body that inserts without looking at the existing entry.
InsertAliasUnchecked(acc, alias, canonical) ==
  [acc EXCEPT !.alias_to_canonical = MapInsert(acc.alias_to_canonical, alias, canonical)]

\* The body of `for alias in aliases`: bail on an alias that already maps
\* to another canonical, insert otherwise.
InsertAlias(acc, alias, canonical) ==
  IF alias \in DOMAIN acc.alias_to_canonical /\ acc.alias_to_canonical[alias] # canonical
  THEN [acc EXCEPT !.status = "err",
                   !.error = <<"Language alias conflicts", alias,
                               acc.alias_to_canonical[alias], canonical>>]
  ELSE [acc EXCEPT !.alias_to_canonical = MapInsert(acc.alias_to_canonical, alias, canonical)]

RECURSIVE InsertAliases(_, _, _)
InsertAliases(acc, aliases, canonical) ==
  IF Len(aliases) = 0 \/ acc.status # "ok" THEN acc
  ELSE InsertAliases(InsertAlias(acc, Head(aliases), canonical), Tail(aliases), canonical)

InitConfig ==
  /\ NoWorker
  /\ txt = NoHarness
  /\ ext = NoHarness
  /\ cfg \in [phase : {"loading"}, language_aliases : AliasTables,
              visited : {{}}, alias_to_canonical : {EmptyMap}, error : {<<>>}]

Inverted(acc, canonical) ==
  cfg' = [cfg EXCEPT !.phase = IF acc.status = "ok" THEN "loading" ELSE "failed",
                     !.visited = cfg.visited \cup {canonical},
                     !.alias_to_canonical = acc.alias_to_canonical,
                     !.error = acc.error]

\* One iteration of `for (canonical, aliases) in language_aliases`.
InvertCanonical ==
  /\ cfg.phase = "loading"
  /\ \E canonical \in (DOMAIN cfg.language_aliases) \ cfg.visited :
       Inverted(InsertAliases([status |-> "ok",
                               alias_to_canonical |-> cfg.alias_to_canonical,
                               error |-> <<>>],
                              cfg.language_aliases[canonical], canonical),
                canonical)
  /\ UNCHANGED <<frame, txt, ext>>

\* Ok(Config { language_aliases: alias_to_canonical, .. })
LoadReturn ==
  /\ cfg.phase = "loading"
  /\ cfg.visited = DOMAIN cfg.language_aliases
  /\ cfg' = [cfg EXCEPT !.phase = "loaded"]
  /\ UNCHANGED <<frame, txt, ext>>

NextConfig == InvertCanonical \/ LoadReturn

SpecConfig == InitConfig /\ [][NextConfig]_vars

(***************************************************************************)
(* C11  Alias validation.                                                  *)
(***************************************************************************)

Listed(table, canonical, alias) ==
  canonical \in DOMAIN table
  /\ \E k \in 1..Len(table[canonical]) : table[canonical][k] = alias

\* Some alias is listed under two distinct canonical languages.
AliasConflict(table) ==
  \E a \in Aliases : \E c1, c2 \in DOMAIN table :
    c1 # c2 /\ Listed(table, c1, a) /\ Listed(table, c2, a)

\* C11: load fails iff some alias is listed under two distinct canonicals,
\* and the error then names such an alias and the two canonicals it is
\* listed under; otherwise it succeeds and the map holds exactly the listed
\* aliases, each mapped to the canonical it was listed under.
C11_AliasValidation ==
  /\ cfg.phase = "failed" =>
       /\ AliasConflict(cfg.language_aliases)
       /\ Len(cfg.error) = 4 /\ cfg.error[1] = "Language alias conflicts"
       /\ cfg.error[3] # cfg.error[4]
       /\ Listed(cfg.language_aliases, cfg.error[3], cfg.error[2])
       /\ Listed(cfg.language_aliases, cfg.error[4], cfg.error[2])
  /\ cfg.phase = "loaded" =>
       /\ ~AliasConflict(cfg.language_aliases)
       /\ \A a \in Aliases :
            a \in DOMAIN cfg.alias_to_canonical
              <=> \E c \in DOMAIN cfg.language_aliases : Listed(cfg.language_aliases, c, a)
       /\ \A a \in DOMAIN cfg.alias_to_canonical :
            Listed(cfg.language_aliases, cfg.alias_to_canonical[a], a)

\* A table with an alias listed twice under one canonical and another alias
\* under a second canonical was loaded.
C11_LoadedWitness ==
  /\ cfg.phase = "loaded"
  /\ "typescript" \in DOMAIN cfg.language_aliases
  /\ cfg.language_aliases["typescript"] = <<"ts", "ts">>
  /\ "rust" \in DOMAIN cfg.language_aliases
  /\ cfg.language_aliases["rust"] = <<"tsx">>
  /\ cfg.alias_to_canonical = [ts |-> "typescript", tsx |-> "rust"]

\* A load failed on the alias of the repository's conflict test.
C11_Witness ==
  /\ cfg.phase = "failed"
  /\ cfg.language_aliases = [typescript |-> <<"ts">>, rust |-> <<"ts">>]
  /\ cfg.error[2] = "ts"


(***************************************************************************)
(* C12  A failed region fails the frame before any splice.                 *)
(***************************************************************************)

\* The working buffer as the root-level pass of the top-level call leaves it.
PostRoot ==
  RootPass(format_context, opts, is_root, RootSpecs, Frame("ok", source, <<>>, <<>>)).buf

RegionReturned(i) == Len(formatted_regions[i]) > 0

RegionFailed(i) == RegionReturned(i) /\ formatted_regions[i][1].status = "err"

RegionSucceeded(i) == RegionReturned(i) /\ formatted_regions[i][1].status = "ok"

\* C12: once the worker of any region has failed, the frame never reaches
\* the splice loop: the working buffer stays the post-root buffer, nothing
\* is queued for splicing, and the call does not return Ok, whatever the
\* other workers returned and in whatever order.
C12_AllOrNothing ==
  (\E i \in 1..Len(formatted_regions) : RegionFailed(i)) =>
    /\ pc \in {"fanout", "failed"}
    /\ formatted_result = PostRoot
    /\ region_results = <<>>
    /\ pc = "failed" => Outcome[1] = "err"

\* The call failed although a worker that returned before the failing one
\* had a replacement that differs from its region's bytes.
C12_Witness ==
  /\ pc = "failed"
  /\ Len(formatted_regions) >= 2
  /\ \E i, j \in 1..Len(formatted_regions) :
       /\ RegionFailed(i) /\ RegionSucceeded(j)
       /\ formatted_regions[j][1].buf #
            Slice(formatted_result, injected_regions[j].range.start_byte,
                  injected_regions[j].range.end_byte)
       /\ completion_order[1] = j

(***************************************************************************)
(* C13  A root-level formatter failure one level down.                     *)
(***************************************************************************)

\* The text the worker of `region` hands to its recursive call.
RegionSource(buffer, region, escape_chars) ==
  NormalizeIndent(buffer, region,
    IF Len(escape_chars) = 0
    THEN Slice(buffer, region.range.start_byte, region.range.end_byte)
    ELSE unescape_text(Slice(buffer, region.range.start_byte, region.range.end_byte),
                       escape_chars))

\* The root-level formatter pass of the frame one level down, for `region`.
RegionRootPassOf(region, n) ==
  RootPass(format_context,
           FormatOpts(adjusted_printwidth(opts.printwidth, n.indent), region.lang),
           FALSE,
           SpecsFor(format_context, FormatOpts(1, region.lang), format_root, FALSE),
           Frame("ok", n.normalized_source, <<>>, <<>>))

RegionRootPass(i) ==
  RegionRootPassOf(injected_regions[i],
    RegionSource(PostRoot, injected_regions[i],
                 sort_escape_chars(injected_regions[i].opts.escape_chars)))

\* The root-level formatter pass of the depth-1 frame of region i failed.
DepthOneRootFailed(i) == RegionReturned(i) /\ RegionRootPass(i).status = "err"

\* C13 as stated: when the root-level formatter pass of a depth-1 frame
\* fails, the enclosing call (depth 0) still returns a buffer.
C13_DepthIsolation ==
  (Terminal /\ \E i \in 1..Len(formatted_regions) : DepthOneRootFailed(i))
    => pc = "done"

\* C13 as amended: when the root-level formatter pass of a depth-1 frame
\* fails, the worker of its region fails with that error, and the enclosing
\* call (depth 0) returns an error of such a frame and no buffer.
C13_DepthPropagation ==
  /\ \A i \in 1..Len(formatted_regions) :
       DepthOneRootFailed(i) =>
         /\ RegionFailed(i)
         /\ formatted_regions[i][1].error = RegionRootPass(i).error
  /\ (Terminal /\ \E i \in 1..Len(formatted_regions) : DepthOneRootFailed(i)) =>
       /\ pc = "failed"
       /\ \E i \in 1..Len(formatted_regions) :
            DepthOneRootFailed(i) /\ error = RegionRootPass(i).error

\* The top-level call failed with the error of a formatter that ran one
\* level down, while its own root-level pass had invoked a formatter that
\* succeeded.
C13_Witness ==
  /\ pc = "failed"
  /\ Len(calls) > 0
  /\ \E i \in 1..Len(formatted_regions) :
       /\ DepthOneRootFailed(i)
       /\ error = <<"Failed to run formatter", "strict">>
       /\ formatted_regions[i][1].calls[Len(formatted_regions[i][1].calls)].is_root = FALSE


(***************************************************************************)
(* C14  Print width on descent.                                            *)
(***************************************************************************)

\* The indent of region i as the claim words it: its start column in the
\* buffer the workers read or, when that is 0, the minimum leading indent
\* of its content.
ClaimedIndent(i) ==
  IF column_for_byte(PostRoot, injected_regions[i].range.start_byte) > 0
  THEN column_for_byte(PostRoot, injected_regions[i].range.start_byte)
  ELSE min_leading_indent(Slice(PostRoot, injected_regions[i].range.start_byte,
                                injected_regions[i].range.end_byte))

\* max(1, parent printwidth - indent), in unbounded integers.
ClaimedPrintWidth(i) == Max(1, opts.printwidth - ClaimedIndent(i))

\* C14: every formatter invoked by the frame of a region (depth 1) is given
\* printwidth = max(1, parent printwidth - indent), which is at least 1 and
\* at most the parent's; every formatter invoked further down is given a
\* printwidth between 1 and that of the depth-1 frame.
C14_PrintWidthOnDescent ==
  \A i \in 1..Len(formatted_regions) :
    RegionReturned(i) =>
      \A k \in 1..Len(formatted_regions[i][1].calls) :
        /\ ~formatted_regions[i][1].calls[k].is_root
        /\ formatted_regions[i][1].calls[k].printwidth >= 1
        /\ formatted_regions[i][1].calls[k].printwidth <= ClaimedPrintWidth(i)
        /\ ClaimedPrintWidth(i) <= opts.printwidth
        /\ formatted_regions[i][1].calls[k].language = injected_regions[i].lang =>
             formatted_regions[i][1].calls[k].printwidth = ClaimedPrintWidth(i)

\* A region indented further than the parent's print width had a formatter
\* invoked with print width 1, and a region at indent 1 with the parent's
\* print width less 1.
C14_Witness ==
  /\ opts.printwidth = PrintWidth
  /\ \E i \in 1..Len(formatted_regions) :
       /\ RegionReturned(i)
       /\ ClaimedIndent(i) > opts.printwidth
       /\ Len(formatted_regions[i][1].calls) > 0
       /\ formatted_regions[i][1].calls[1].printwidth = 1
  /\ \E j \in 1..Len(formatted_regions) :
       /\ RegionReturned(j)
       /\ ClaimedIndent(j) = 1
       /\ Len(formatted_regions[j][1].calls) > 0
       /\ formatted_regions[j][1].calls[1].printwidth = opts.printwidth - 1


(***************************************************************************)
(* Lines 104-120 of the worker on their own: what it makes of the bytes    *)
(* its recursive call returned, for any returned bytes.                    *)
(***************************************************************************)

MaxSliceLen == 3
MaxReplyLen == 3
MaxIndent == 2

LineAlphabet == {"a", NL, CR}
Slices == SeqsUpTo(LineAlphabet, MaxSliceLen)
Replies == SeqsUpTo(LineAlphabet, MaxReplyLen)

\* The sorted escape lists of the regions the harness covers.
EscapeLists == {<<>>, <<<<"a">>>>, <<<<NL>>>>}

\* The outcomes of the indent normalisation: indent_from_content only with
\* a positive indent.
Indents ==
  {[indent |-> k, indent_from_content |-> c, normalized_source |-> <<>>] :
     k \in 0..MaxIndent, c \in BOOLEAN} \ 
  {[indent |-> 0, indent_from_content |-> TRUE, normalized_source |-> <<>>]}

InitReassemble ==
  /\ NoWorker
  /\ ext = NoHarness
  /\ cfg = NoHarness
  /\ txt \in [phase : {"returned"}, source_slice : Slices, reply : Replies,
              escape_chars : EscapeLists, n : Indents, replacement : {<<>>}]

\* The rest of the closure after the recursive call returned Ok(reply).
WorkerReassemble ==
  /\ txt.phase = "returned"
  /\ txt' = [txt EXCEPT
       !.phase = "reassembled",
       !.replacement =
          WorkerResult(InjectedRegion(NodeRange(txt.source_slice, 0, Len(txt.source_slice)),
                                      "clj", {}),
                       txt.source_slice, txt.escape_chars, txt.n,
                       Frame("ok", txt.reply, <<>>, <<>>)).buf]
  /\ UNCHANGED <<frame, ext, cfg>>

NextReassemble == WorkerReassemble

SpecReassemble == InitReassemble /\ [][NextReassemble]_vars

(***************************************************************************)
(* C15  Trailing newlines are preserved.                                   *)
(***************************************************************************)

\* The longest suffix of `data` made of "\n" and "\r" bytes, found from
\* the front: the shortest k with nothing but newline bytes after it.
NewlineSuffix(data) ==
  LET starts == {k \in 0..Len(data) : \A j \in (k + 1)..Len(data) : IsNewlineByte(data[j])}
  IN Slice(data, CHOOSE k \in starts : \A m \in starts : k <= m, Len(data))

\* C15: the replacement ends with exactly the maximal newline suffix of the
\* region's slice, whatever bytes the recursive call returned and whatever
\* the escape list and the indent.
C15_TrailingNewlinesPreserved ==
  txt.phase = "reassembled" =>
    NewlineSuffix(txt.replacement) = NewlineSuffix(txt.source_slice)

\* A slice ending in "\r\n" and a reply ending in other newlines went
\* through escaping, the indent prefix and offset_lines.
C15_Witness ==
  /\ txt.phase = "reassembled"
  /\ txt.source_slice = <<"a", CR, NL>>
  /\ txt.reply = <<"a", NL, NL>>
  /\ txt.escape_chars = <<<<"a">>>>
  /\ txt.n.indent = 2 /\ txt.n.indent_from_content
  /\ txt.replacement = <<SP, SP, BS, "a", CR, NL>>


(***************************************************************************)
(* C16  The range invariant.                                               *)
(***************************************************************************)

\* start_point <= end_point, lexicographically on (row, column).
PointLeq(p, q) == p.row < q.row \/ (p.row = q.row /\ p.column <= q.column)

WellFormedRange(range, length) ==
  /\ range.start_byte <= range.end_byte
  /\ range.end_byte <= length
  /\ PointLeq(range.start_point, range.end_point)

\* C16: every region of a call that returns has start_byte <= end_byte <=
\* length of the caller's source and start_point <= end_point, for the
\* source as given and for the source with a final newline.
C16_RangeInvariant ==
  /\ ext.phase \in {"extracted", "both"} =>
       \A k \in 1..Len(ext.result.regions) :
         WellFormedRange(ext.result.regions[k].range, Len(ext.source))
  /\ ext.phase = "both" =>
       \A k \in 1..Len(ext.result_with_newline.regions) :
         WellFormedRange(ext.result_with_newline.regions[k].range, Len(ext.source) + 1)


(***************************************************************************)
(* C17  A language without a grammar.                                      *)
(***************************************************************************)

UnknownLanguage(language) ==
  language \notin DOMAIN format_context.grammars /\ language \notin DOMAIN language_aliases

\* What lines 104-119 make of the root-level pass of region i.
RootPassReplacement(i) ==
  Reassemble(RegionRootPass(i).buf,
             Slice(PostRoot, injected_regions[i].range.start_byte,
                   injected_regions[i].range.end_byte),
             sort_escape_chars(injected_regions[i].opts.escape_chars),
             RegionSource(PostRoot, injected_regions[i],
                          sort_escape_chars(injected_regions[i].opts.escape_chars)))

\* C17: the call for a region whose language has neither a grammar nor an
\* alias returns Ok with the output of the root-level formatter pass for
\* that language, having invoked those formatters and nothing else; when
\* every region of the frame is such a region the frame goes on to splice
\* them all and returns Ok.
C17_UnknownLanguage ==
  /\ \A i \in 1..Len(formatted_regions) :
       (/\ RegionReturned(i)
        /\ UnknownLanguage(injected_regions[i].lang)
        /\ RegionRootPass(i).status = "ok") =>
         /\ RegionSucceeded(i)
         /\ formatted_regions[i][1].calls = RegionRootPass(i).calls
         /\ formatted_regions[i][1].buf = RootPassReplacement(i)
  /\ (/\ Terminal
      /\ Len(formatted_regions) > 0
      /\ \A i \in 1..Len(formatted_regions) :
           UnknownLanguage(injected_regions[i].lang)
           /\ RegionRootPass(i).status = "ok") =>
       /\ pc = "done"
       /\ formatted_result = SpliceAll(PostRoot, sort_results(Finished)).buf

\* A frame with two regions of a language without grammar or alias was
\* reassembled; the formatters of that language changed the first region.
C17_Witness ==
  /\ pc = "done"
  /\ Len(formatted_regions) = 2
  /\ \A i \in 1..2 : UnknownLanguage(injected_regions[i].lang)
  /\ Len(formatted_regions[2][1].calls) > 0
  /\ RegionRootPass(2).buf # RegionSource(PostRoot, injected_regions[2], <<<<PIPE>>>>).normalized_source
  /\ formatted_result # source


(***************************************************************************)
(* offset_lines on its own, for any buffer and any offset.                 *)
(***************************************************************************)

MaxBufferLen == 4
MaxOffset == 2

BufferAlphabet == {"a", SP, NL, CR}
Buffers == SeqsUpTo(BufferAlphabet, MaxBufferLen)

InitOffset ==
  /\ NoWorker
  /\ ext = NoHarness
  /\ cfg = NoHarness
  /\ txt \in [phase : {"buffer"}, data : Buffers, offset : 0..MaxOffset, result : {<<>>}]

\* text::offset_lines(&mut data, offset)
OffsetLines ==
  /\ txt.phase = "buffer"
  /\ txt' = [txt EXCEPT !.phase = "offset", !.result = offset_lines(txt.data, txt.offset)]
  /\ UNCHANGED <<frame, ext, cfg>>

NextOffset == OffsetLines

SpecOffset == InitOffset /\ [][NextOffset]_vars

(***************************************************************************)
(* C18  offset_lines.                                                      *)
(***************************************************************************)

\* The byte at position k of B is a "\n" whose next byte exists and is
\* neither "\n" nor "\r".
IndentedAfter(B, k) ==
  B[k] = NL /\ k < Len(B) /\ B[k + 1] # NL /\ B[k + 1] # CR

\* B with n spaces after each such "\n" and nothing else added.
RECURSIVE IndentedFrom(_, _, _)
IndentedFrom(B, n, k) ==
  IF k > Len(B) THEN <<>>
  ELSE <<B[k]>> \o (IF IndentedAfter(B, k) THEN Spaces(n) ELSE <<>>)
       \o IndentedFrom(B, n, k + 1)

\* C18: offset_lines(B, n) is B with exactly n spaces inserted after each
\* "\n" whose next byte exists and is neither "\n" nor "\r", and nothing
\* inserted anywhere else; n = 0 leaves B unchanged.
C18_OffsetLines ==
  txt.phase = "offset" =>
    /\ txt.result = IndentedFrom(txt.data, txt.offset, 1)
    /\ Len(txt.result) =
         Len(txt.data)
         + txt.offset * Cardinality({k \in 1..Len(txt.data) : IndentedAfter(txt.data, k)})
    /\ txt.offset = 0 => txt.result = txt.data

\* A buffer with a blank line, an indentable line and a final newline was
\* offset by two.
C18_Witness ==
  /\ txt.phase = "offset"
  /\ txt.data = <<NL, NL, "a", NL>>
  /\ txt.offset = 2
  /\ txt.result = <<NL, NL, SP, SP, "a", NL>>


(***************************************************************************)
(* C19  The order of the phases of a frame.                                *)
(***************************************************************************)

AllReturned == \A i \in 1..Len(formatted_regions) : RegionReturned(i)

\* The phases a step may lead to from each phase.
PhaseSuccessors ==
  [root |-> {"root", "fanout", "done", "failed", "panicked"},
   fanout |-> {"fanout", "reassemble", "failed", "panicked"},
   reassemble |-> {"reassemble", "done", "panicked"},
   done |-> {}, failed |-> {}, panicked |-> {}]

\* What one step of the frame may do.
PhaseStep ==
  /\ pc' \in PhaseSuccessors[pc]
     \* the extraction comes after the last root-level formatter and reads
     \* the buffer that pass left
  /\ (pc = "root" /\ pc' # "root" /\ pc' # "failed") =>
       /\ spec_index = Len(RootSpecs)
       /\ formatted_result = PostRoot
       /\ injected_regions' = ExtractRegions(format_context, opts, PostRoot).regions
     \* the buffer is written by the root-level pass and by the splice
     \* loop, and by the latter only after every worker has returned
  /\ formatted_result' # formatted_result =>
       \/ pc = "root" /\ pc' = "root"
       \/ pc = "reassemble" /\ AllReturned
     \* a worker returns during the fan-out only, once, with what it makes
     \* of the post-root buffer
  /\ \A i \in 1..Len(formatted_regions) :
       (Len(formatted_regions') = Len(formatted_regions)
        /\ formatted_regions'[i] # formatted_regions[i]) =>
         /\ pc = "fanout" /\ pc' = "fanout"
         /\ formatted_regions[i] = <<>>
         /\ formatted_regions'[i] =
              <<Worker(format_context, opts, format_root, PostRoot, injected_regions[i])>>
     \* the regions are fixed once extracted
  /\ pc # "root" => injected_regions' = injected_regions

\* Outside the fan-out at most one step is possible; the splice loop and
\* the return come after every worker.
PhaseInvariant ==
  /\ pc \in {"reassemble", "done"} => AllReturned
  /\ pc' \in {"reassemble", "done"} => AllReturned'
  /\ ~(ENABLED RootFormat /\ ENABLED Extract)
  /\ ~(ENABLED SpliceNext /\ ENABLED Return)
  /\ pc # "fanout" => ~ENABLED (\E i \in 1..Len(injected_regions) : Work(i))
  /\ pc # "fanout" => ~ENABLED Join
  /\ (ENABLED Join) => AllReturned

\* C19: the phases of the top-level frame occur in the order root
\* formatting, extraction, fan-out, reassembly, done; the extraction reads
\* the buffer after the last root-level formatter, every worker reads that
\* same buffer, the first splice comes after the last worker, and only in
\* the fan-out is more than one step possible.
C19_PhaseOrdering == [][PhaseStep /\ PhaseInvariant]_vars

\* A frame went through all the phases: a root-level formatter changed the
\* buffer, three workers returned out of region order, and the splices
\* changed the buffer again.
C19_Witness ==
  /\ pc = "done"
  /\ Len(calls) > 0 /\ PostRoot # source
  /\ Len(completion_order) = 3
  /\ completion_order[1] = 2
  /\ formatted_result # PostRoot


(***************************************************************************)
(* C20  The formatter chain.                                               *)
(***************************************************************************)

\* What the formatter of a call wrote.
OutputOf(call) == Command(call.cmd, call.input).stdout

\* The calls cs form a chain that starts from `input`: each formatter is
\* given what the one before it wrote.
Chained(cs, input) ==
  \A k \in 1..Len(cs) : cs[k].input = IF k = 1 THEN input ELSE OutputOf(cs[k - 1])

\* The buffer a chain leaves: the output of its last call, the input when
\* no formatter was invoked.
ChainOutput(cs, input) == IF Len(cs) = 0 THEN input ELSE OutputOf(cs[Len(cs)])

\* The registered formatters among the specs of a language that are to run
\* at the level, in list order.
ChainNames(language, root) ==
  FormatterNames(
    SelectSeq(LangSpecs(language),
              LAMBDA fs : Registered(fs) /\ should_run(fs, root)))

\* C20: at the top level the formatters invoked so far form a chain from
\* the source and the working buffer is the chain's output; once the pass
\* is over they are, in list order, all the registered formatters of the
\* language that should run at the level, unregistered names having been
\* passed over.  The same holds for the frame of every region, from the
\* text the worker hands to it.
C20_FormatterChain ==
  /\ Chained(calls, source)
  /\ pc \in {"root", "fanout"} => formatted_result = ChainOutput(calls, source)
  /\ (pc \notin {"root", "failed"} /\ (~is_root \/ format_root)) =>
       FormatterNames(calls) = ChainNames(opts.language, is_root)
  /\ \A i \in 1..Len(formatted_regions) :
       RegionSucceeded(i) =>
         /\ Chained(CallsFor(formatted_regions[i][1].calls, injected_regions[i].lang),
                    RegionSource(PostRoot, injected_regions[i],
                                 sort_escape_chars(injected_regions[i].opts.escape_chars)
                                ).normalized_source)
         /\ FormatterNames(CallsFor(formatted_regions[i][1].calls,
                                    injected_regions[i].lang))
              = ChainNames(injected_regions[i].lang, FALSE)
         /\ RegionRootPass(i).buf =
              ChainOutput(CallsFor(formatted_regions[i][1].calls, injected_regions[i].lang),
                          RegionSource(PostRoot, injected_regions[i],
                                       sort_escape_chars(injected_regions[i].opts.escape_chars)
                                      ).normalized_source)

\* The frame of a region ran two formatters with an unregistered name
\* between them in the list; each changed the bytes it was given.
C20_Witness ==
  \E i \in 1..Len(formatted_regions) :
    /\ RegionSucceeded(i)
    /\ Len(LangSpecs(injected_regions[i].lang)) = 3
    /\ ~Registered(LangSpecs(injected_regions[i].lang)[2])
    /\ Len(formatted_regions[i][1].calls) = 2
    /\ formatted_regions[i][1].calls[2].input # formatted_regions[i][1].calls[1].input
    /\ OutputOf(formatted_regions[i][1].calls[2]) # formatted_regions[i][1].calls[2].input


(***************************************************************************)
(* C21  The offset fallback.                                               *)
(***************************************************************************)

\* The point an offset! directive asks for, in signed arithmetic.
ShiftedPoint(point, row, column) == [row |-> point.row + row, column |-> point.column + column]

\* A shifted point has a negative row or column, or a row past the last
\* line of the text.
OutOfText(text, point) ==
  point.row < 0 \/ point.column < 0 \/ point.row >= Len(SplitInclusive(text))

\* The offset! directive of the pattern cannot be applied to the range.
OffsetFails(text, range, offset) ==
  \/ OutOfText(text, ShiftedPoint(range.start_point, offset.start_row, offset.start_col))
  \/ OutOfText(text, ShiftedPoint(range.end_point, offset.end_row, offset.end_col))

\* C21: a call whose offset! directive gives a negative row or column, or a
\* row past the last line, for some content capture neither fails nor
\* panics, and the region of that capture has the capture's base range.
C21_OffsetFallback ==
  ext.phase \in {"extracted", "both"} =>
    \A m \in 1..Len(ParsedMatches) :
      (/\ Len(get_offset_modifiers(ext.query.patterns[1].predicates, CONTENT)) > 0
       /\ OffsetFails(ParsedText, ParsedMatches[m].captures[1].range,
                      get_offset_modifiers(ext.query.patterns[1].predicates, CONTENT)[1]))
      => /\ ext.result.status = "ok"
         /\ Len(ext.result.regions) = Len(ParsedMatches)
         /\ ext.result.regions[m].range =
              remap_range_for_appended_newline(
                ParsedMatches[m].captures[1].range,
                with_newline(ext.source).original_endpoint)


(***************************************************************************)
(* extract_language_injections on the matches of a query cursor: a match   *)
(* is a list of captures, each the @injection.language capture (a node     *)
(* whose text is "ts") or an @injection.content capture of one of two      *)
(* nodes; the one pattern of the query has the injection.language property *)
(* or not, the pruner.injection.indented property or not, and a list of    *)
(* gsub! predicates on @injection.language.                                *)
(***************************************************************************)

MaxRules == 3
MaxCaptures == 2
MaxMatches == 2

MatchText == <<SP, NL, "a", SP, NL>>

GsubPredicate(pattern, replacement, compiles, malformed) ==
  [operator |-> "gsub!", capture |-> LANGUAGE, malformed |-> malformed,
   pattern |-> pattern, replacement |-> replacement, compiles |-> compiles]

\* (#gsub! @injection.language "ts" "typescript"), ("typescript" "tsx"), a
\* rule whose Lua pattern does not compile and a predicate with a missing
\* argument.
GsubRules ==
  {GsubPredicate("ts", "typescript", TRUE, FALSE),
   GsubPredicate("typescript", "tsx", TRUE, FALSE),
   GsubPredicate("ts", "js", FALSE, FALSE),
   GsubPredicate("ts", "js", TRUE, TRUE)}

CaptureSet ==
  {[name |-> LANGUAGE, range |-> NodeRange(MatchText, 0, 0), text |-> "ts"],
   [name |-> CONTENT, range |-> NodeRange(MatchText, 0, 4), text |-> ""],
   [name |-> CONTENT, range |-> NodeRange(MatchText, 4, 5), text |-> ""]}

MatchSet == {[pattern_index |-> 0, captures |-> c] : c \in SeqsUpTo(CaptureSet, MaxCaptures)}

MatchQueries ==
  {[has_content_capture |-> TRUE, has_language_capture |-> TRUE,
    patterns |-> <<[language |-> l, predicates |-> p, indented |-> i]>>] :
     l \in {<<>>, <<"x">>}, p \in SeqsUpTo(GsubRules, MaxRules), i \in BOOLEAN}

InitMatch ==
  /\ NoWorker
  /\ txt = NoHarness
  /\ cfg = NoHarness
  /\ ext \in [phase : {"matched"}, query : MatchQueries,
              matches : SeqsUpTo(MatchSet, MaxMatches), result : {NoResult}]

\* The `while let Some(query_match) = matches.next()` loop on the matches.
MatchExtract ==
  /\ ext.phase = "matched"
  /\ ext' = [ext EXCEPT
       !.phase = "extracted",
       !.result = extract_language_injections(ext.query, MatchText, ext.matches)]
  /\ UNCHANGED <<frame, txt, cfg>>

NextMatch == MatchExtract

SpecMatch == InitMatch /\ [][NextMatch]_vars

(***************************************************************************)
(* C22  Language determination.                                            *)
(***************************************************************************)

CapturesNamed(query_match, name) ==
  SelectSeq(query_match.captures, LAMBDA c : c.name = name)

\* The match has a language: a property of its pattern or a capture.
HasLanguage(query, query_match) ==
  \/ Len(query.patterns[query_match.pattern_index + 1].language) > 0
  \/ Len(CapturesNamed(query_match, LANGUAGE)) > 0

\* The matches that are not skipped.
KeptMatches(query, matches) ==
  SelectSeq(matches,
            LAMBDA m : Len(CapturesNamed(m, CONTENT)) > 0 /\ HasLanguage(query, m))

\* The gsub! rules of the pattern that parse and compile, in declaration
\* order.
ValidRules(pattern) ==
  SelectSeq(pattern.predicates,
            LAMBDA p : /\ p.operator = "gsub!" /\ p.capture = LANGUAGE
                       /\ ~p.malformed /\ p.compiles)

\* The first n rules applied one after the other, each on the previous
\* rule's result.
RECURSIVE RulesApplied(_, _, _)
RulesApplied(text, rules, n) ==
  IF n = 0 THEN text
  ELSE IF RulesApplied(text, rules, n - 1) = rules[n].pattern THEN rules[n].replacement
  ELSE RulesApplied(text, rules, n - 1)

ClaimedLanguage(query, query_match) ==
  IF Len(query.patterns[query_match.pattern_index + 1].language) > 0
  THEN query.patterns[query_match.pattern_index + 1].language[1]
  ELSE RulesApplied(CapturesNamed(query_match, LANGUAGE)[1].text,
                    ValidRules(query.patterns[query_match.pattern_index + 1]),
                    Len(ValidRules(query.patterns[query_match.pattern_index + 1])))

\* C22: the call succeeds; a match without a content capture, or with
\* neither the property nor a language capture, gives no region; the
\* language of the regions of any other match is the property's value when
\* the pattern has one, and otherwise the text of the language capture
\* with the gsub! rules that parse and compile applied in declaration
\* order, each on the previous rule's result.
C22_LanguageDetermination ==
  ext.phase = "extracted" =>
    /\ ext.result.status = "ok"
    /\ Len(KeptMatches(ext.query, ext.matches)) = 0 => Len(ext.result.regions) = 0
    /\ \A k \in 1..Len(ext.result.regions) :
         \E m \in 1..Len(KeptMatches(ext.query, ext.matches)) :
           ext.result.regions[k].lang =
             ClaimedLanguage(ext.query, KeptMatches(ext.query, ext.matches)[m])
    /\ \A m \in 1..Len(KeptMatches(ext.query, ext.matches)) :
         \E k \in 1..Len(ext.result.regions) :
           /\ ext.result.regions[k].lang =
                ClaimedLanguage(ext.query, KeptMatches(ext.query, ext.matches)[m])
           /\ \E c \in 1..Len(KeptMatches(ext.query, ext.matches)[m].captures) :
                ext.result.regions[k].range.start_byte =
                  KeptMatches(ext.query, ext.matches)[m].captures[c].range.start_byte

\* Two rules were chained on the text of the capture after a rule that
\* does not compile was dropped, next to a skipped match.
C22_Witness ==
  /\ ext.phase = "extracted"
  /\ Len(ext.query.patterns[1].language) = 0
  /\ Len(ext.query.patterns[1].predicates) = 3
  /\ Len(ValidRules(ext.query.patterns[1])) = 2
  /\ Len(ext.matches) = 2
  /\ Len(ext.result.regions) = 1
  /\ ext.result.regions[1].lang = "tsx"

\* The property wins over the capture and its rules.
C22_HardcodedWitness ==
  /\ ext.phase = "extracted"
  /\ ext.query.patterns[1].language = <<"x">>
  /\ Len(ValidRules(ext.query.patterns[1])) > 0
  /\ \E m \in 1..Len(ext.matches) : Len(CapturesNamed(ext.matches[m], LANGUAGE)) > 0
  /\ Len(ext.result.regions) > 0
  /\ \A k \in 1..Len(ext.result.regions) : ext.result.regions[k].lang = "x"


(***************************************************************************)
(* C23  One fragment per content capture.                                  *)
(***************************************************************************)

\* The ranges of the content captures of the matches that are not skipped,
\* by match and then by capture within the match.
RECURSIVE ContentRanges(_)
ContentRanges(kept) ==
  IF Len(kept) = 0 THEN <<>>
  ELSE [c \in 1..Len(CapturesNamed(Head(kept), CONTENT)) |->
          CapturesNamed(Head(kept), CONTENT)[c].range]
       \o ContentRanges(Tail(kept))

\* C23: the returned list has one region per content capture of every
\* match that is not skipped, ordered by match and then by capture; a match
\* without a content capture adds none.
C23_FragmentPerCapture ==
  ext.phase = "extracted" =>
    /\ ext.result.status = "ok"
    /\ [k \in 1..Len(ext.result.regions) |-> ext.result.regions[k].range]
         = ContentRanges(KeptMatches(ext.query, ext.matches))


(***************************************************************************)
(* crates/cli/src/api/directives/trim.rs                                   *)
(*                                                                         *)
(* A `while` loop is an operator that calls itself once per iteration and  *)
(* carries the number of iterations it may still make: a loop that has not *)
(* left after one iteration per byte of the source, and one more, is    *)
(* reported as "diverged".                                                 *)
(***************************************************************************)

TrimSpec(start_linewise, start_charwise, end_linewise, end_charwise) ==
  [start_linewise |-> start_linewise, start_charwise |-> start_charwise,
   end_linewise |-> end_linewise, end_charwise |-> end_charwise]

default_end_linewise_only == TrimSpec(FALSE, FALSE, TRUE, FALSE)

is_line_whitespace_only(bytes) ==
  \A i \in 1..Len(bytes) : bytes[i] \in {SP, TAB, CR}

\* iter().position(|b| *b == b'\n'): <<>> is None, <<i>> is Some(i).
NewlinePosition(slice) ==
  IF \E i \in 1..Len(slice) : slice[i] = NL
  THEN <<(CHOOSE i \in 1..Len(slice) :
            slice[i] = NL /\ \A j \in 1..(i - 1) : slice[j] # NL) - 1>>
  ELSE <<>>

\* iter().rposition(|b| *b == b'\n')
NewlineRPosition(slice) ==
  IF \E i \in 1..Len(slice) : slice[i] = NL
  THEN <<(CHOOSE i \in 1..Len(slice) :
            slice[i] = NL /\ \A j \in (i + 1)..Len(slice) : slice[j] # NL) - 1>>
  ELSE <<>>

Trimmed(status, value) == [status |-> status, value |-> value]

RECURSIVE trim_start_linewise(_, _, _, _)
trim_start_linewise(src, start, end, fuel) ==
  IF ~(start < end) THEN Trimmed("done", start)
  ELSE IF fuel = 0 THEN Trimmed("diverged", start)
  ELSE IF Len(NewlinePosition(Slice(src, start, end))) = 0
    THEN Trimmed("done", IF is_line_whitespace_only(Slice(src, start, end))
                         THEN end ELSE start)
  ELSE IF is_line_whitespace_only(
            Slice(src, start, start + NewlinePosition(Slice(src, start, end))[1]))
    THEN trim_start_linewise(
           src, Min(start + NewlinePosition(Slice(src, start, end))[1] + 1, end),
           end, fuel - 1)
  ELSE Trimmed("done", start)

\* line_end of one iteration of trim_end_linewise.
LineEnd(src, start, end) == IF src[end] = NL THEN end - 1 ELSE end

\* line_start of one iteration of trim_end_linewise.
LineStartBefore(src, start, line_end) ==
  IF Len(NewlineRPosition(Slice(src, start, line_end))) > 0
  THEN start + NewlineRPosition(Slice(src, start, line_end))[1] + 1
  ELSE start

\* A loop that also takes the newline that ends the line before.
RECURSIVE TrimEndLinewiseOverNewline(_, _, _, _)
TrimEndLinewiseOverNewline(src, start, end, fuel) ==
  IF ~(end > start) THEN Trimmed("done", end)
  ELSE IF fuel = 0 THEN Trimmed("diverged", end)
  ELSE IF is_line_whitespace_only(
            Slice(src, LineStartBefore(src, start, LineEnd(src, start, end)),
                  LineEnd(src, start, end)))
    THEN TrimEndLinewiseOverNewline(
           src, start,
           Max(start, LineStartBefore(src, start, LineEnd(src, start, end)) - 1),
           fuel - 1)
  ELSE Trimmed("done", end)

RECURSIVE trim_end_linewise(_, _, _, _)
trim_end_linewise(src, start, end, fuel) ==
  IF ~(end > start) THEN Trimmed("done", end)
  ELSE IF fuel = 0 THEN Trimmed("diverged", end)
  ELSE IF is_line_whitespace_only(
            Slice(src, LineStartBefore(src, start, LineEnd(src, start, end)),
                  LineEnd(src, start, end)))
    THEN trim_end_linewise(
           src, start, LineStartBefore(src, start, LineEnd(src, start, end)),
           fuel - 1)
  ELSE Trimmed("done", end)

is_charwise_whitespace(byte) == byte \in {SP, TAB, NL, CR}

RECURSIVE trim_start_charwise(_, _, _, _)
trim_start_charwise(src, start, end, fuel) ==
  IF ~(start < end /\ is_charwise_whitespace(src[start + 1]))
    THEN Trimmed("done", start)
  ELSE IF fuel = 0 THEN Trimmed("diverged", start)
  ELSE trim_start_charwise(src, start + 1, end, fuel - 1)

RECURSIVE trim_end_charwise(_, _, _, _)
trim_end_charwise(src, start, end, fuel) ==
  IF ~(end > start /\ is_charwise_whitespace(src[end]))
    THEN Trimmed("done", end)
  ELSE IF fuel = 0 THEN Trimmed("diverged", end)
  ELSE trim_end_charwise(src, start, end - 1, fuel - 1)

\* The iterations a loop over `source` is allowed.
Fuel(src) == Len(src) + 1

\* Lines 60-67, with the start already trimmed.
ApplyTrimEnd(src, start, end, spec, status) ==
  LET e1 == IF spec.end_linewise
            THEN trim_end_linewise(src, start, end, Fuel(src))
            ELSE Trimmed("done", end)
      e2 == IF spec.end_charwise
            THEN trim_end_charwise(src, start, e1.value, Fuel(src))
            ELSE Trimmed("done", e1.value)
  IN [status |-> IF {status, e1.status, e2.status} = {"done"} THEN "done" ELSE "diverged",
      start |-> start, end |-> e2.value]

\* Lines 53-58, then the end.
ApplyTrimStart(src, start, end, spec) ==
  LET s1 == IF spec.start_linewise
            THEN trim_start_linewise(src, start, end, Fuel(src))
            ELSE Trimmed("done", start)
      s2 == IF spec.start_charwise
            THEN trim_start_charwise(src, s1.value, end, Fuel(src))
            ELSE Trimmed("done", s1.value)
  IN ApplyTrimEnd(src, s2.value, end, spec,
                  IF {s1.status, s2.status} = {"done"} THEN "done" ELSE "diverged")

apply_trim(src, start_byte, end_byte, spec) ==
  IF start_byte >= end_byte \/ end_byte > Len(src)
  THEN [status |-> "done", start |-> start_byte, end |-> end_byte]
  ELSE ApplyTrimStart(src, start_byte, end_byte, spec)

(***************************************************************************)
(* apply_trim on its own.                                                  *)
(***************************************************************************)

MaxTrimLen == 4

TrimAlphabet == {"a", SP, NL, CR}
TrimSources == SeqsUpTo(TrimAlphabet, MaxTrimLen)
TrimSpecs == [start_linewise : BOOLEAN, start_charwise : BOOLEAN,
              end_linewise : BOOLEAN, end_charwise : BOOLEAN]

NoTrim == [status |-> "none", start |-> 0, end |-> 0]

InitTrim ==
  /\ NoWorker
  /\ ext = NoHarness
  /\ cfg = NoHarness
  /\ txt \in [phase : {"window"}, source : TrimSources,
              start_byte : 0..(MaxTrimLen + 1), end_byte : 0..(MaxTrimLen + 1),
              spec : TrimSpecs, result : {NoTrim}]

\* apply_trim(source, start_byte, end_byte, spec)
ApplyTrim ==
  /\ txt.phase = "window"
  /\ txt' = [txt EXCEPT
       !.phase = "trimmed",
       !.result = apply_trim(txt.source, txt.start_byte, txt.end_byte, txt.spec)]
  /\ UNCHANGED <<frame, ext, cfg>>

NextTrim == ApplyTrim

SpecTrim == InitTrim /\ [][NextTrim]_vars

(***************************************************************************)
(* C24  trim!                                                              *)
(***************************************************************************)

ValidWindow == txt.start_byte < txt.end_byte /\ txt.end_byte <= Len(txt.source)

\* The line of the source that byte index i lies in, as [from, to): to is
\* just after the line's "\n", or the end of the source.
LineFrom(src, i) ==
  IF \E j \in 1..i : src[j] = NL
  THEN CHOOSE j \in 1..i : src[j] = NL /\ \A k \in (j + 1)..i : src[k] # NL
  ELSE 0

LineTo(src, i) ==
  IF \E j \in (i + 1)..Len(src) : src[j] = NL
  THEN CHOOSE j \in (i + 1)..Len(src) :
         src[j] = NL /\ \A k \in (i + 1)..(j - 1) : src[k] # NL
  ELSE Len(src)

\* The bytes of the window that are neither space, tab, CR nor LF.
InkOf(src, s, e) == {i \in s..(e - 1) : src[i + 1] \notin {SP, TAB, CR, NL}}

\* The end of the last line of the window [s, e) that has a byte other
\* than whitespace, its "\n" included when that lies inside the window; s
\* when there is no such line.
LastInkedLineEnd(src, s, e) ==
  IF InkOf(src, s, e) = {} THEN s
  ELSE Min(e, LineTo(src, CHOOSE i \in InkOf(src, s, e) :
                               \A j \in InkOf(src, s, e) : j <= i))

\* C24: apply_trim terminates; on a window with s < e <= len(source) it
\* returns (s', e') with s <= s' <= e' <= e and removes whitespace only,
\* and with the default spec s' = s and e' is the end of the last line of
\* the window that has a non-whitespace byte; any other window is returned
\* unchanged.
C24_Trim ==
  txt.phase = "trimmed" =>
    /\ txt.result.status = "done"
    /\ ValidWindow =>
         /\ txt.start_byte <= txt.result.start
         /\ txt.result.start <= txt.result.end
         /\ txt.result.end <= txt.end_byte
         /\ \A i \in txt.start_byte..(txt.end_byte - 1) :
              (i < txt.result.start \/ i >= txt.result.end)
                => txt.source[i + 1] \in {SP, TAB, CR, NL}
         /\ txt.spec = default_end_linewise_only =>
              /\ txt.result.start = txt.start_byte
              /\ txt.result.end = LastInkedLineEnd(txt.source, txt.start_byte, txt.end_byte)
    /\ ~ValidWindow =>
         /\ txt.result.start = txt.start_byte
         /\ txt.result.end = txt.end_byte

\* The default spec dropped two trailing blank lines of a window and kept
\* the newline of the line before them.
C24_Witness ==
  /\ txt.phase = "trimmed" /\ ValidWindow
  /\ txt.spec = default_end_linewise_only
  /\ txt.source = <<"a", NL, SP, NL>>
  /\ txt.start_byte = 0 /\ txt.end_byte = 4
  /\ txt.result.start = 0 /\ txt.result.end = 2


(***************************************************************************)
(* crates/cli/src/api/directives/indented.rs                               *)
(***************************************************************************)

is_indented(pattern) == pattern.indented

\* Lines 21-29: the start after a first line that is whitespace only.
IndentedStart(src, start, end) ==
  IF Len(NewlinePosition(Slice(src, start, end))) > 0
     /\ is_line_whitespace_only(
          Slice(src, start, start + NewlinePosition(Slice(src, start, end))[1]))
  THEN Min(start + NewlinePosition(Slice(src, start, end))[1] + 1, end)
  ELSE start

\* Lines 32-38: the end before the trailing spaces and tabs.
RECURSIVE IndentedEnd(_, _, _)
IndentedEnd(src, start, end) ==
  IF end > start /\ src[end] \in {SP, TAB} THEN IndentedEnd(src, start, end - 1)
  ELSE end

\* (start, end) as a pair.
trim_bytes(src, start_byte, end_byte) ==
  IF start_byte >= end_byte \/ end_byte > Len(src) THEN <<start_byte, end_byte>>
  ELSE <<IndentedStart(src, start_byte, end_byte),
         IndentedEnd(src, IndentedStart(src, start_byte, end_byte), end_byte)>>

(***************************************************************************)
(* C25  The indented property.                                             *)
(***************************************************************************)

\* The range of a content capture narrowed by trim_bytes, its points
\* recomputed from the narrowed bytes.
IndentedRange(text, range) ==
  NodeRange(text, trim_bytes(text, range.start_byte, range.end_byte)[1],
            trim_bytes(text, range.start_byte, range.end_byte)[2])

\* C25: every region of a pattern with the pruner.injection.indented
\* property has the range of a content capture of its match narrowed by
\* trim_bytes: it starts just after the first "\n" of the content when only
\* whitespace comes before it, and ends before the trailing spaces and tabs.
C25_IndentedProperty ==
  (ext.phase = "extracted" /\ is_indented(ext.query.patterns[1])) =>
    /\ ext.result.status = "ok"
    /\ \A k \in 1..Len(ext.result.regions) :
         \E m \in 1..Len(ext.matches) :
           \E c \in 1..Len(CapturesNamed(ext.matches[m], CONTENT)) :
             ext.result.regions[k].range =
               IndentedRange(MatchText, CapturesNamed(ext.matches[m], CONTENT)[c].range)


(***************************************************************************)
(* C26  The ignore marker and its target.                                  *)
(***************************************************************************)

\* The comments of the parse whose text contains the marker.
Markers(nodes) == {i \in 1..Len(nodes) : nodes[i].kind = "comment" /\ nodes[i].marker}

\* The siblings after node i that are not comments.
Followers(nodes, i) == {j \in (i + 1)..Len(nodes) : nodes[j].kind # "comment"}

\* The ranges the claim gives for marker i: the comment's own, and the
\* first follower's when there is one.
ClaimedIgnored(nodes, i) ==
  {nodes[i].range}
  \cup {nodes[j].range : j \in {k \in Followers(nodes, i) :
                                  \A l \in Followers(nodes, i) : k <= l}}

\* The items of the parse that are the target of a marker.
Targets(nodes) ==
  {j \in 1..Len(nodes) : \E i \in Markers(nodes) :
     j \in Followers(nodes, i) /\ \A l \in Followers(nodes, i) : j <= l}

RegionStarts(regions) == {regions[k].range.start_byte : k \in 1..Len(regions)}

\* C26: collect_ignore_ranges holds, for every comment with the marker, the
\* comment's range and the range of the first following sibling that is not
\* a comment, and nothing else; and a call without offset! directives
\* returns a region for every item except the targets of the markers.
C26_IgnoreMarker ==
  ext.phase \in {"extracted", "both"} =>
    /\ {collect_ignore_ranges(ParsedNodes)[k] :
          k \in 1..Len(collect_ignore_ranges(ParsedNodes))}
         = UNION {ClaimedIgnored(ParsedNodes, i) : i \in Markers(ParsedNodes)}
    /\ Len(ext.query.patterns[1].predicates) = 0 =>
         /\ ext.result.status = "ok"
         /\ RegionStarts(ext.result.regions)
              = {ParsedNodes[j].range.start_byte :
                   j \in {n \in 1..Len(ParsedNodes) : ParsedNodes[n].kind = "item"}
                         \ Targets(ParsedNodes)}

\* The part of C26 that is about collect_ignore_ranges alone.
C26_CollectedRanges ==
  ext.phase \in {"extracted", "both"} =>
    {collect_ignore_ranges(ParsedNodes)[k] :
       k \in 1..Len(collect_ignore_ranges(ParsedNodes))}
      = UNION {ClaimedIgnored(ParsedNodes, i) : i \in Markers(ParsedNodes)}


(***************************************************************************)
(* C27  Re-indentation to the original column.                             *)
(***************************************************************************)

\* The column of byte index i in the buffer: its distance from the byte
\* after the last "\n" before it.
ColumnIn(buffer, i) ==
  i - (IF \E k \in 1..i : buffer[k] = NL
       THEN CHOOSE k \in 1..i : buffer[k] = NL /\ \A l \in (k + 1)..i : buffer[l] # NL
       ELSE 0)

\* The content of region i as its worker reads it from the post-root
\* buffer, unescaped.
RegionContent(i) ==
  IF injected_regions[i].opts.escape_chars = {}
  THEN Slice(PostRoot, injected_regions[i].range.start_byte,
             injected_regions[i].range.end_byte)
  ELSE unescape_text(Slice(PostRoot, injected_regions[i].range.start_byte,
                           injected_regions[i].range.end_byte),
                     sort_escape_chars(injected_regions[i].opts.escape_chars))

\* The indent is taken from the content of region i.
IndentFromContent(i) ==
  /\ ColumnIn(PostRoot, injected_regions[i].range.start_byte) = 0
  /\ min_leading_indent(RegionContent(i)) > 0

RegionIndent(i) ==
  IF IndentFromContent(i) THEN min_leading_indent(RegionContent(i))
  ELSE ColumnIn(PostRoot, injected_regions[i].range.start_byte)

\* Region i was formatted by a frame without regions of its own, so the
\* output of its sub-formatters is the output of that frame's root pass.
LeafRegion(i) ==
  /\ RegionSucceeded(i)
  /\ injected_regions[i].lang \notin DOMAIN format_context.grammars

\* The lines of the sub-formatters' output that the worker keeps.
OutputLines(i) == SplitInclusive(strip_trailing_newlines(RegionRootPass(i).buf))

ReplacementLines(i) == SplitInclusive(formatted_regions[i][1].buf)

\* A line that offset_lines does not take for blank.
NonBlankLine(line) == Len(line) > 0 /\ line[1] # NL /\ line[1] # CR

\* C27: with indent the column of the region's start in the post-root
\* buffer or, at column 0, the minimum leading indent of its content, every
\* non-blank line after the first of the replacement has indent more
\* leading spaces than the same line of the sub-formatters' output; the
\* first line has indent more when the indent was taken from the content
\* and the replacement does not start with "\n" or "\r", and as many as in
\* the output otherwise.
C27_ReindentToColumn ==
  \A i \in 1..Len(formatted_regions) :
    LeafRegion(i) =>
      /\ Len(ReplacementLines(i)) >= Len(OutputLines(i))
      /\ \A j \in 2..Len(OutputLines(i)) :
           NonBlankLine(OutputLines(i)[j]) =>
             LeadingSpaces(ReplacementLines(i)[j])
               = RegionIndent(i) + LeadingSpaces(OutputLines(i)[j])
      /\ (Len(OutputLines(i)) > 0 /\ NonBlankLine(OutputLines(i)[1])) =>
           LeadingSpaces(ReplacementLines(i)[1])
             = (IF IndentFromContent(i) THEN RegionIndent(i) ELSE 0)
               + LeadingSpaces(OutputLines(i)[1])
      /\ (Len(formatted_regions[i][1].buf) > 0
          /\ IsNewlineByte(formatted_regions[i][1].buf[1])) =>
           (Len(OutputLines(i)) = 0 \/ ~NonBlankLine(OutputLines(i)[1]))

\* A region that starts at a column of the post-root buffer other than its
\* column in the caller's source was re-indented to the former, and a
\* region at column 0 got back the indent taken from its content.
C27_Witness ==
  /\ PostRoot # source
  /\ \E i \in 1..Len(formatted_regions) :
       /\ LeafRegion(i)
       /\ ~IndentFromContent(i)
       /\ RegionIndent(i) > 0
       /\ RegionIndent(i) # ColumnIn(source, Min(injected_regions[i].range.start_byte, Len(source)))
       /\ Len(OutputLines(i)) >= 2
       /\ NonBlankLine(OutputLines(i)[2])
       /\ LeadingSpaces(ReplacementLines(i)[2]) = RegionIndent(i)

\* The first line of a region got back the indent taken from its content.
C27_ContentIndentWitness ==
  \E i \in 1..Len(formatted_regions) :
    /\ LeafRegion(i)
    /\ IndentFromContent(i)
    /\ Len(OutputLines(i)) > 0
    /\ LeadingSpaces(OutputLines(i)[1]) = 0
    /\ LeadingSpaces(ReplacementLines(i)[1]) = RegionIndent(i)


(***************************************************************************)
(* C28  Slices and splices stay within the buffer.                         *)
(*                                                                         *)
(* The top-level call on "nest" documents, whose regions lie inside one     *)
(* another; the regions are leaves of language "txt".                      *)
(***************************************************************************)

NestLanguages ==
  [nest |-> <<Bare("cat")>>, txt |-> <<Bare("dup"), Table("sq", FALSE, TRUE)>>]

NestContext ==
  [grammars |-> [nest |-> NestQuery], languages |-> NestLanguages,
   formatters |-> Formatters, wasm_formatter |-> {}]

InitNest ==
  /\ source \in Sources
  /\ opts = FormatOpts(PrintWidth, "nest")
  /\ format_root \in BOOLEAN
  /\ is_root \in BOOLEAN
  /\ format_context = NestContext
  /\ language_aliases = [ts |-> "typescript"]
  /\ pc = "root"
  /\ spec_index = 0
  /\ formatted_result = source
  /\ injected_regions = <<>>
  /\ formatted_regions = <<>>
  /\ completion_order = <<>>
  /\ region_results = <<>>
  /\ error = <<>>
  /\ calls = <<>>
  /\ txt = NoHarness
  /\ ext = NoHarness
  /\ cfg = NoHarness

SpecNest == InitNest /\ [][Next]_vars

InBuffer(range, buffer) ==
  range.start_byte <= range.end_byte /\ range.end_byte <= Len(buffer)

\* The region next in line for the splice loop.
NextSpliced == Head(region_results).region.range

\* C28: every region handed to a worker lies within the post-root buffer
\* the workers slice, every region about to be spliced lies within the
\* buffer as the earlier splices left it and still covers the bytes it
\* covered in the post-root buffer, and the call never panics on a slice or
\* a splice.
C28_SpliceBounds ==
  /\ pc # "panicked"
  /\ \A i \in 1..Len(injected_regions) : InBuffer(injected_regions[i].range, PostRoot)
  /\ (pc = "reassemble" /\ Len(region_results) > 0) =>
       /\ InBuffer(NextSpliced, formatted_result)
       /\ Slice(formatted_result, NextSpliced.start_byte, NextSpliced.end_byte)
            = Slice(PostRoot, NextSpliced.start_byte, NextSpliced.end_byte)

\* The same on the bytes alone: a region about to be spliced that lies
\* within the buffer still covers its original bytes.
C28_OriginalBytes ==
  (pc = "reassemble" /\ Len(region_results) > 0 /\ InBuffer(NextSpliced, formatted_result)) =>
    Slice(formatted_result, NextSpliced.start_byte, NextSpliced.end_byte)
      = Slice(PostRoot, NextSpliced.start_byte, NextSpliced.end_byte)

\* The splice loop never panics.
C28_NoPanic == pc # "panicked"


(***************************************************************************)
(* C29  Termination of the escape passes.                                  *)
(*                                                                         *)
(* The while loops of escape_text and unescape_text, one iteration per     *)
(* step, on the escape lists parse_escape_predicate can build: any set of   *)
(* string arguments, the empty string included, sorted by the worker.      *)
(***************************************************************************)

\* The result of escape_text on a text of MaxTextLen bytes has at most
\* twice as many; a loop that has written more is cut off.
MaxResultLen == 2 * MaxTextLen + 1

EMPTY == <<>>

EscapeArguments == EscapeStrings \cup {EMPTY}

InitLoop ==
  /\ NoWorker
  /\ ext = NoHarness
  /\ cfg = NoHarness
  /\ txt \in [phase : {"escape", "unescape"}, text : Texts,
              escape_chars : {sort_escape_chars(E) : E \in SUBSET EscapeArguments},
              index : {0}, result : {<<>>}]

LoopState == [index |-> txt.index, result |-> txt.result]

Iterated(st) == txt' = [txt EXCEPT !.index = st.index, !.result = st.result]

\* One iteration of `while index < text.len()` in escape_text.
EscapeIteration ==
  /\ txt.phase = "escape"
  /\ txt.index < Len(txt.text)
  /\ Len(txt.result) <= MaxResultLen
  /\ Iterated(EscapeStep(txt.text, txt.escape_chars, LoopState))
  /\ UNCHANGED <<frame, ext, cfg>>

\* escape_text returns result.
EscapeReturn ==
  /\ txt.phase = "escape"
  /\ txt.index >= Len(txt.text)
  /\ txt' = [txt EXCEPT !.phase = "escaped"]
  /\ UNCHANGED <<frame, ext, cfg>>

\* One iteration of `while index < text.len()` in unescape_text.
UnescapeIteration ==
  /\ txt.phase = "unescape"
  /\ txt.index < Len(txt.text)
  /\ Len(txt.result) <= MaxResultLen
  /\ Iterated(UnescapeStep(txt.text, txt.escape_chars, LoopState))
  /\ UNCHANGED <<frame, ext, cfg>>

\* unescape_text returns result.
UnescapeReturn ==
  /\ txt.phase = "unescape"
  /\ txt.index >= Len(txt.text)
  /\ txt' = [txt EXCEPT !.phase = "unescaped"]
  /\ UNCHANGED <<frame, ext, cfg>>

NextLoop == EscapeIteration \/ EscapeReturn \/ UnescapeIteration \/ UnescapeReturn

SpecLoop == InitLoop /\ [][NextLoop]_vars

\* C29: every iteration of either loop moves index forward by at least one
\* byte of the text, whatever the escape list; so a loop over a text of n
\* bytes makes at most n iterations.
C29_EscapeTermination ==
  [][(txt.phase \in {"escape", "unescape"} /\ txt'.phase = txt.phase) =>
       txt'.index > txt.index]_vars

\* The same for the loop of unescape_text alone.
C29_UnescapeProgress ==
  [][(txt.phase = "unescape" /\ txt'.phase = txt.phase) => txt'.index > txt.index]_vars

\* The same for lists without the empty string.
C29_NonEmptyProgress ==
  [][(txt.phase \in {"escape", "unescape"} /\ txt'.phase = txt.phase
      /\ \A k \in 1..Len(txt.escape_chars) : txt.escape_chars[k] # EMPTY) =>
       txt'.index > txt.index]_vars


(***************************************************************************)
(* C30  Temp files of concurrent formatter invocations.                    *)
(*                                                                         *)
(* src/api/format/runner.rs: runner::format for a formatter with           *)
(* stdin = false, one step per file-system operation, called by two region *)
(* workers of one process at once.  SystemTime::now() is the environment's: *)
(* the clock moves on its own, and two reads with no tick between them     *)
(* return the same nanosecond count.  The formatter command rewrites       *)
(* $file in place (dup: every "a" doubled).                                *)
(***************************************************************************)

MaxClock == 2
Invocations == {1, 2}
ProcessId == 7

TempSources == {<<"a">>, <<"b">>}

\* temp_dir()/prune-format-{pid}-{nanos}
unique_temp_file(pid, nanos) == <<"prune-format", pid, nanos>>

TempPaths == {unique_temp_file(ProcessId, n) : n \in 0..MaxClock}

NoPath == <<>>

\* A file is <<>> when it does not exist and <<content>> when it does.
NoFile == <<>>

InitRunner ==
  /\ NoWorker
  /\ txt = NoHarness
  /\ cfg = NoHarness
  /\ ext \in [phase : {"runner"}, now : {0}, files : {[p \in TempPaths |-> NoFile]},
              runs : [Invocations -> [pc : {"start"}, source : TempSources,
                                      temp_file : {NoPath}, status : {"ok"},
                                      result : {<<>>}]]]

Run(k) == ext.runs[k]

\* The system clock advances.
Tick ==
  /\ ext.phase = "runner"
  /\ ext.now < MaxClock
  /\ ext' = [ext EXCEPT !.now = ext.now + 1]
  /\ UNCHANGED <<frame, txt, cfg>>

\* Line 35: let path = unique_temp_file()
NameTempFile(k) ==
  /\ ext.phase = "runner"
  /\ Run(k).pc = "start"
  /\ ext' = [ext EXCEPT !.runs[k].pc = "named",
                        !.runs[k].temp_file = unique_temp_file(ProcessId, ext.now)]
  /\ UNCHANGED <<frame, txt, cfg>>

\* Lines 36-37: fs::write(&path, source) creates or truncates the file.
WriteTempFile(k) ==
  /\ ext.phase = "runner"
  /\ Run(k).pc = "named"
  /\ ext' = [ext EXCEPT !.runs[k].pc = "written",
                        !.files[Run(k).temp_file] = <<Run(k).source>>]
  /\ UNCHANGED <<frame, txt, cfg>>

\* Lines 62-88: the command runs on $file and exits; it fails when the file
\* is gone.
RunCommand(k) ==
  /\ ext.phase = "runner"
  /\ Run(k).pc = "written"
  /\ IF ext.files[Run(k).temp_file] = NoFile
     THEN ext' = [ext EXCEPT !.runs[k].pc = "ran", !.runs[k].status = "err"]
     ELSE ext' = [ext EXCEPT !.runs[k].pc = "ran",
                             !.files[Run(k).temp_file] =
                               <<Dup(ext.files[Run(k).temp_file][1])>>]
  /\ UNCHANGED <<frame, txt, cfg>>

\* Lines 92-96: result = fs::read(path), an Err when the file is gone.
ReadTempFile(k) ==
  /\ ext.phase = "runner"
  /\ Run(k).pc = "ran"
  /\ IF Run(k).status = "err" THEN ext' = [ext EXCEPT !.runs[k].pc = "read"]
     ELSE IF ext.files[Run(k).temp_file] = NoFile
       THEN ext' = [ext EXCEPT !.runs[k].pc = "read", !.runs[k].status = "err"]
     ELSE ext' = [ext EXCEPT !.runs[k].pc = "read",
                             !.runs[k].result = ext.files[Run(k).temp_file][1]]
  /\ UNCHANGED <<frame, txt, cfg>>

\* Lines 107-113: fs::remove_file(path), a failure only logged; result is
\* returned.
RemoveTempFile(k) ==
  /\ ext.phase = "runner"
  /\ Run(k).pc = "read"
  /\ ext' = [ext EXCEPT !.runs[k].pc = "done", !.files[Run(k).temp_file] = NoFile]
  /\ UNCHANGED <<frame, txt, cfg>>

NextRunner ==
  \/ Tick
  \/ \E k \in Invocations : NameTempFile(k)
  \/ \E k \in Invocations : WriteTempFile(k)
  \/ \E k \in Invocations : RunCommand(k)
  \/ \E k \in Invocations : ReadTempFile(k)
  \/ \E k \in Invocations : RemoveTempFile(k)

SpecRunner == InitRunner /\ [][NextRunner]_vars

\* The invocation holds a temp file path it has not yet removed.
HoldsTempFile(k) == Run(k).pc \in {"named", "written", "ran", "read"}

\* C30: two invocations that hold a temp file at the same time hold
\* different paths, and an invocation that has read its file back got the
\* formatter's output for its own source.
C30_TempFileIsolation ==
  ext.phase = "runner" =>
    /\ \A j, k \in Invocations :
         (j # k /\ HoldsTempFile(j) /\ HoldsTempFile(k)) =>
           Run(j).temp_file # Run(k).temp_file
    /\ \A k \in Invocations :
         Run(k).pc \in {"read", "done"} =>
           (Run(k).status = "ok" /\ Run(k).result = Dup(Run(k).source))

\* The read-back alone: no invocation returns another's text or an error.
C30_ReadsOwnFile ==
  ext.phase = "runner" =>
    \A k \in Invocations :
      Run(k).pc \in {"read", "done"} =>
        (Run(k).status = "ok" /\ Run(k).result = Dup(Run(k).source))

\* Invocations named at different clock readings do read back their own
\* file.
C30_DistinctNamesIsolated ==
  (ext.phase = "runner" /\ Run(1).temp_file # Run(2).temp_file) =>
    \A k \in Invocations :
      Run(k).pc \in {"read", "done"} =>
        (Run(k).status = "ok" /\ Run(k).result = Dup(Run(k).source))

=============================================================================
